---- MODULE Spec2Model ----
(***************************************************************************)
(* Virtual filesystem of retro-web: the VFS coordinator (vfs.js), its      *)
(* IndexedDB storage backend (storage.js), the File / Directory records,   *)
(* the path resolver and the default tree.                                 *)
(*                                                                         *)
(* Representation.                                                         *)
(*  - A path string is the sequence of its parts between separators:       *)
(*    'C:\' is <<"C:">>, 'C:\Windows\Temp' is <<"C:","Windows","Temp">>,   *)
(*    '.' is <<".">>, the empty string is <<>>.                            *)
(*  - A storage record is a structured clone: children and attributes are  *)
(*    held by value.                                                       *)
(*  - A cached entry is a JavaScript object.  Its children array and its   *)
(*    attributes object are shared by reference with every Directory/File  *)
(*    object built from it by fromJSON and every plain object produced by  *)
(*    toJSON; that shared part lives in `heap` under the entry's `ref`.    *)
(*  - Timestamps, permissions and mimeType are left out: no write of the   *)
(*    coordinator reads them, and cache and storage always receive them    *)
(*    from the same object.                                                *)
(***************************************************************************)
EXTENDS Integers, Sequences, FiniteSets, TLC

VARIABLES
    storage,      \* IndexedDB 'entries' store: id -> record
    metadata,     \* IndexedDB 'metadata' store: set of keys that are set to true
    cache,        \* VFS.cache: path -> cached entry object
    heap,         \* shared parts of the cached objects: ref -> [children, archive]
    initialized,  \* VFS.initialized
    db,           \* Storage.db is an open database (not null)
    last,         \* the most recent coordinator call: operation, arguments, outcome
    calls,        \* number of coordinator calls issued so far
    procs,        \* in-flight asynchronous calls: their position and locals
    queue         \* IndexedDB requests dispatched and not yet executed, in order

vars == <<storage, metadata, cache, heap, initialized, db, last, calls, procs, queue>>

(***************************************************************************)
(* Bounds of the model                                                     *)
(***************************************************************************)
\* number of ids File.generateId / Directory.generateId can hand out at a time
MaxNewIds == 2
\* number of coordinator calls in one run
MaxCalls == 4
\* the injected storage failure hits the k-th write of a call, k in 1..MaxFaultAt
MaxFaultAt == 3
\* number of coordinator calls in one run with storage failures
MaxFaultCalls == 4
\* number of calls issued one at a time before the concurrent ones
MaxPrelude == 4
\* initialize() calls begun in the start-up specification
MaxBootCalls == 3
\* number of parts (between separators) of a path string handed to PathResolver
MaxParts == 3
\* calls per behaviour of the tree specification
MaxTreeCalls == 6

NullId == "null"

(***************************************************************************)
(* Small helpers on functions and sequences                                *)
(***************************************************************************)
MapPut(f, k, v) == [x \in (DOMAIN f) \cup {k} |-> IF x = k THEN v ELSE f[x]]

MapDel(f, k) == [x \in (DOMAIN f) \ {k} |-> f[x]]

SeqRange(s) == {s[i] : i \in 1..Len(s)}

RECURSIVE SeqRemoveFirst(_, _)
SeqRemoveFirst(s, x) ==
    IF s = <<>> THEN <<>>
    ELSE IF Head(s) = x THEN Tail(s)
    ELSE <<Head(s)>> \o SeqRemoveFirst(Tail(s), x)

(***************************************************************************)
(* PathResolver                                                            *)
(***************************************************************************)
\* /^[A-Z]:$/i on one part
IsDrive(part) == part \in {"C:", "D:", "E:"}

RECURSIVE NormalizeParts(_, _)
NormalizeParts(parts, normalized) ==
    IF parts = <<>> THEN normalized
    ELSE LET part == Head(parts) IN
         IF part = "" \/ part = "." THEN NormalizeParts(Tail(parts), normalized)
         ELSE IF part = ".."
              THEN NormalizeParts(Tail(parts),
                       IF Len(normalized) > 1
                       THEN SubSeq(normalized, 1, Len(normalized) - 1)
                       ELSE normalized)
              ELSE NormalizeParts(Tail(parts), Append(normalized, part))

normalize(path) ==
    IF path = <<>> THEN <<>>
    ELSE LET result == NormalizeParts(path, <<>>) IN
         IF result = <<>> THEN <<"C:">> ELSE result

dirname(path) ==
    LET p == normalize(path) IN
    IF Len(p) = 0 THEN <<".">>
    ELSE IF Len(p) = 1 THEN (IF IsDrive(p[1]) THEN p ELSE <<".">>)
    ELSE SubSeq(p, 1, Len(p) - 1)

basename(path) ==
    LET p == normalize(path) IN
    IF Len(p) = 0 THEN ""
    ELSE IF Len(p) = 1 /\ IsDrive(p[1]) THEN ""
    ELSE p[Len(p)]

\* segments.filter(s => s).join(separator), normalized; a segment is a path
join(dir, name) ==
    normalize((IF dir = <<>> THEN <<>> ELSE dir) \o (IF name = "" THEN <<>> ELSE <<name>>))

\* String.prototype.toLowerCase on a part of a path, a name or one character:
\* the strings of the model that have an upper-case letter
toLowerCase(str) ==
    CASE str = "C:" -> "c:"
      [] str = "Documents and Settings" -> "documents and settings"
      [] str = "User" -> "user"
      [] str = "Desktop" -> "desktop"
      [] str = "My Documents" -> "my documents"
      [] str = "My Pictures" -> "my pictures"
      [] str = "My Music" -> "my music"
      [] str = "My Videos" -> "my videos"
      [] str = "Start Menu" -> "start menu"
      [] str = "Application Data" -> "application data"
      [] str = "Program Files" -> "program files"
      [] str = "Windows" -> "windows"
      [] str = "System32" -> "system32"
      [] str = "Temp" -> "temp"
      [] str = "Cache" -> "cache"
      [] str = "Config" -> "config"
      [] str = "Recycle Bin" -> "recycle bin"
      [] str = "Welcome.txt" -> "welcome.txt"
      [] str = "README.txt" -> "readme.txt"
      [] str = "New Folder" -> "new folder"
      [] str = "A.TXT" -> "a.txt"
      [] str = "TEMP" -> "temp"
      [] str = "A" -> "a"
      [] str = "T" -> "t"
      [] str = "X" -> "x"
      [] OTHER -> str

LowerParts(path) == [k \in 1..Len(path) |-> toLowerCase(path[k])]

equals(path1, path2) == LowerParts(normalize(path1)) = LowerParts(normalize(path2))

\* childPath starts with parentPath followed by a separator
isChildOf(childPath, parentPath) ==
    LET child == LowerParts(normalize(childPath))
        parent == LowerParts(normalize(parentPath))
    IN Len(child) > Len(parent) /\ SubSeq(child, 1, Len(parent)) = parent

(***************************************************************************)
(* File.calculateSize: byte length of the content (Blob size)              *)
(***************************************************************************)
WelcomeText == "Welcome to Retro Web OS! ..."
ReadmeText == "My Documents Folder ..."
SystemIniText == "[System] OS=Retro Web OS ..."

\* the branch of calculateSize for a content that is neither a string, a Blob
\* nor an ArrayBuffer
calculateSizeOfUnknown(content) == 0

calculateSize(content) ==
    CASE content = "" -> 0
      [] content = "hi" -> 2
      [] content = "abc" -> 3
      [] content = WelcomeText -> 510
      [] content = ReadmeText -> 304
      [] content = SystemIniText -> 232
      [] OTHER -> 0

(***************************************************************************)
(* DefaultStructure.create: the 17 directories and 3 sample files, in the  *)
(* order they are pushed, as the toJSON records createDefaultStructure     *)
(* hands to storage.                                                       *)
(***************************************************************************)
UserPath == <<"C:", "Documents and Settings", "User">>

createDir(id, name, path, parentId, children) ==
    [id |-> id, name |-> name, path |-> path, type |-> "directory",
     parentId |-> parentId, children |-> children,
     content |-> "", size |-> 0, archive |-> FALSE]

sampleFile(id, name, path, parentId, content, archive) ==
    [id |-> id, name |-> name, path |-> path, type |-> "file",
     parentId |-> parentId, children |-> <<>>,
     content |-> content, size |-> calculateSize(content), archive |-> archive]

createSampleFiles ==
    << sampleFile("welcome_txt", "Welcome.txt", UserPath \o <<"Desktop", "Welcome.txt">>,
                  "desktop", WelcomeText, TRUE),
       sampleFile("readme_txt", "README.txt", UserPath \o <<"My Documents", "README.txt">>,
                  "my_documents", ReadmeText, TRUE),
       sampleFile("system_info", "system.ini", <<"C:", "Windows", "system.ini">>,
                  "windows", SystemIniText, FALSE) >>

DefaultStructureCreate ==
    << createDir("root_c", "C:", <<"C:">>, NullId,
                 <<"docs_settings", "program_files", "windows", "recycle_bin">>),
       createDir("docs_settings", "Documents and Settings",
                 <<"C:", "Documents and Settings">>, "root_c", <<"user_folder">>),
       createDir("user_folder", "User", UserPath, "docs_settings",
                 <<"desktop", "my_documents", "start_menu", "app_data", "user_config">>),
       createDir("desktop", "Desktop", UserPath \o <<"Desktop">>, "user_folder", <<>>),
       createDir("my_documents", "My Documents", UserPath \o <<"My Documents">>,
                 "user_folder", <<"my_pictures", "my_music", "my_videos">>),
       createDir("my_pictures", "My Pictures",
                 UserPath \o <<"My Documents", "My Pictures">>, "my_documents", <<>>),
       createDir("my_music", "My Music",
                 UserPath \o <<"My Documents", "My Music">>, "my_documents", <<>>),
       createDir("my_videos", "My Videos",
                 UserPath \o <<"My Documents", "My Videos">>, "my_documents", <<>>),
       createDir("start_menu", "Start Menu", UserPath \o <<"Start Menu">>,
                 "user_folder", <<>>),
       createDir("app_data", "Application Data", UserPath \o <<"Application Data">>,
                 "user_folder", <<>>),
       createDir("program_files", "Program Files", <<"C:", "Program Files">>,
                 "root_c", <<>>),
       createDir("windows", "Windows", <<"C:", "Windows">>, "root_c",
                 <<"system32", "temp", "system_cache">>),
       createDir("system32", "System32", <<"C:", "Windows", "System32">>, "windows", <<>>),
       createDir("temp", "Temp", <<"C:", "Windows", "Temp">>, "windows", <<>>),
       createDir("system_cache", "Cache", <<"C:", "Windows", "Cache">>, "windows", <<>>),
       createDir("user_config", "Config", UserPath \o <<"Config">>, "user_folder", <<>>),
       createDir("recycle_bin", "Recycle Bin", <<"C:", "Recycle Bin">>, "root_c", <<>>)
    >> \o createSampleFiles

(***************************************************************************)
(* Ids.  File.generateId and Directory.generateId draw from the clock and  *)
(* a random number; the model hands out an id no object, record, children  *)
(* list or in-flight call refers to.                                       *)
(***************************************************************************)
FileIdNames == <<"file_1", "file_2", "file_3", "file_4">>
DirIdNames == <<"dir_1", "dir_2", "dir_3", "dir_4">>

FileIds == {FileIdNames[i] : i \in 1..MaxNewIds}
DirIds == {DirIdNames[i] : i \in 1..MaxNewIds}

\* ascending key order of the 'entries' store (string comparison of the ids)
IdOrder ==
    << "app_data", "desktop", "dir_1", "dir_2", "dir_3", "dir_4", "docs_settings",
       "file_1", "file_2", "file_3", "file_4", "my_documents", "my_music",
       "my_pictures", "my_videos", "program_files", "readme_txt", "recycle_bin",
       "root_c", "start_menu", "system32", "system_cache", "system_info", "temp",
       "user_config", "user_folder", "welcome_txt", "windows" >>

(***************************************************************************)
(* The state a coordinator call works on, threaded through its steps.      *)
(* fail counts down to the storage write that is made to fail (0: none);   *)
(* pins are the references in-flight calls hold.                           *)
(***************************************************************************)
State(st, ca, hp, fl, pins) ==
    [storage |-> st, cache |-> ca, heap |-> hp, fail |-> fl, pins |-> pins]

\* objects nothing refers to any more are gone
Collect(s) ==
    LET live == {s.cache[p].ref : p \in DOMAIN s.cache} \cup s.pins
    IN [s EXCEPT !.heap = [r \in (DOMAIN s.heap) \cap live |-> s.heap[r]]]

NoEntry ==
    [id |-> NullId, name |-> "", path |-> <<>>, type |-> "none", parentId |-> NullId,
     content |-> "", size |-> 0, ref |-> <<NullId, 0>>]

\* ids some record, cached object, children list or in-flight call mentions
UsedIds(st, ca, hp, pr) ==
    (DOMAIN st)
    \cup {st[i].parentId : i \in DOMAIN st}
    \cup UNION {SeqRange(st[i].children) : i \in DOMAIN st}
    \cup {ca[p].id : p \in DOMAIN ca}
    \cup {ca[p].parentId : p \in DOMAIN ca}
    \cup {r[1] : r \in DOMAIN hp}
    \cup UNION {SeqRange(hp[r].children) : r \in DOMAIN hp}
    \cup UNION {pr[i].ids : i \in DOMAIN pr}

generateId(pool, used) ==
    LET free == {i \in 1..Len(pool) : pool[i] \notin used}
    IN pool[CHOOSE i \in free : \A j \in free : i <= j]

(***************************************************************************)
(* Object references: a new children array / attributes object             *)
(***************************************************************************)
AllocRef(hp, id) ==
    LET n == CHOOSE k \in 0..Cardinality(DOMAIN hp) :
                 /\ <<id, k>> \notin DOMAIN hp
                 /\ \A m \in 0..(k - 1) : <<id, m>> \in DOMAIN hp
    IN <<id, n>>

\* the plain object a storage read (a structured clone) yields, newly allocated
FromStorage(s, rec) ==
    LET ref == AllocRef(s.heap, rec.id)
        obj == [id |-> rec.id, name |-> rec.name, path |-> rec.path, type |-> rec.type,
                parentId |-> rec.parentId, content |-> rec.content, size |-> rec.size,
                ref |-> ref]
    IN [obj |-> obj,
        heap |-> MapPut(s.heap, ref, [children |-> rec.children, archive |-> rec.archive])]

\* the record a storage write stores for an object (structured clone at the call)
ToRecord(hp, obj) ==
    [id |-> obj.id, name |-> obj.name, path |-> obj.path, type |-> obj.type,
     parentId |-> obj.parentId, children |-> hp[obj.ref].children,
     content |-> obj.content, size |-> obj.size, archive |-> hp[obj.ref].archive]

(***************************************************************************)
(* Storage (IndexedDB): 'entries' keyed by id, unique index on path        *)
(***************************************************************************)
\* an 'entries' store without the unique index on path
PathIndexAbsent(st, entry) == FALSE

PathIndexConflict(st, entry) ==
    \E i \in DOMAIN st : i # entry.id /\ st[i].path = entry.path

\* does the write that is about to be made hit the injected failure?
Injected(s) == s.fail = 1

Tick(s) == [s EXCEPT !.fail = IF s.fail > 0 THEN s.fail - 1 ELSE 0]

\* a put into a store that has no unique index on path: it overwrites the
\* record of its key
StorageUpdateEntryUnindexed(s, entry) ==
    [ok |-> ~Injected(s),
     s |-> IF ~Injected(s) THEN [Tick(s) EXCEPT !.storage = MapPut(s.storage, entry.id, entry)]
           ELSE Tick(s)]

StorageCreateEntry(s, entry) ==
    LET ok == /\ ~Injected(s)
              /\ entry.id \notin DOMAIN s.storage
              /\ ~PathIndexConflict(s.storage, entry)
    IN [ok |-> ok,
        s |-> IF ok THEN [Tick(s) EXCEPT !.storage = MapPut(s.storage, entry.id, entry)]
              ELSE Tick(s)]

StorageUpdateEntry(s, entry) ==
    LET ok == ~Injected(s) /\ ~PathIndexConflict(s.storage, entry)
    IN [ok |-> ok,
        s |-> IF ok THEN [Tick(s) EXCEPT !.storage = MapPut(s.storage, entry.id, entry)]
              ELSE Tick(s)]

StorageDeleteEntry(s, id) ==
    LET ok == ~Injected(s)
    IN [ok |-> ok,
        s |-> IF ok THEN [Tick(s) EXCEPT !.storage = MapDel(s.storage, id)]
              ELSE Tick(s)]

StorageHasPath(st, path) == \E i \in DOMAIN st : st[i].path = path

StorageGetEntryByPath(st, path) == st[CHOOSE i \in DOMAIN st : st[i].path = path]

StorageGetChildren(st, parentId) ==
    LET ids == SelectSeq(IdOrder,
                   LAMBDA i : i \in DOMAIN st /\ st[i].parentId = parentId)
    IN [k \in 1..Len(ids) |-> st[ids[k]]]

(***************************************************************************)
(* Storage.searchByName.  A pattern and a name are taken one character at  *)
(* a time.  new RegExp(pattern.replace(/\*/g, '.*'), 'i'): every '*' of    *)
(* the pattern becomes '.*', '.' stands for any one character, any other   *)
(* character of the patterns used here stands for itself in either case.   *)
(***************************************************************************)
RECURSIVE ReplaceStars(_)
ReplaceStars(pattern) ==
    IF pattern = <<>> THEN <<>>
    ELSE (IF Head(pattern) = "*" THEN <<".", "*">> ELSE <<Head(pattern)>>)
         \o ReplaceStars(Tail(pattern))

CharMatches(c, d) == c = "." \/ toLowerCase(c) = toLowerCase(d)

\* the regular expression matches a prefix of str
RECURSIVE MatchHere(_, _)
MatchHere(regex, str) ==
    IF regex = <<>> THEN TRUE
    ELSE IF Len(regex) >= 2 /\ regex[2] = "*"
         THEN \E k \in 0..Len(str) :
                  /\ \A i \in 1..k : CharMatches(regex[1], str[i])
                  /\ MatchHere(SubSeq(regex, 3, Len(regex)), SubSeq(str, k + 1, Len(str)))
         ELSE /\ str # <<>>
              /\ CharMatches(regex[1], str[1])
              /\ MatchHere(Tail(regex), Tail(str))

\* regex.test(str): a match may begin at any position
RegExpTest(regex, str) ==
    \E i \in 1..(Len(str) + 1) : MatchHere(regex, SubSeq(str, i, Len(str)))

\* the characters of the names given to the storage engine directly
Chars(name) ==
    CASE name = "a.txt" -> <<"a", ".", "t", "x", "t">>
      [] name = "A.TXT" -> <<"A", ".", "T", "X", "T">>
      [] name = "a.txt.bak" -> <<"a", ".", "t", "x", "t", ".", "b", "a", "k">>
      [] name = "atxt" -> <<"a", "t", "x", "t">>
      [] name = "Temp" -> <<"T", "e", "m", "p">>

\* the ids of the matching records, in the key order of getAll
searchByName(st, pattern) ==
    SelectSeq(IdOrder,
        LAMBDA i : i \in DOMAIN st
                   /\ RegExpTest(ReplaceStars(pattern), Chars(st[i].name)))

(***************************************************************************)
(* VFS.search: searchByName, filtered unless directory is 'C:\\'           *)
(***************************************************************************)
search(st, pattern, directory) ==
    IF directory # <<"C:">>
    THEN SelectSeq(searchByName(st, pattern),
             LAMBDA i : \/ isChildOf(st[i].path, normalize(directory))
                        \/ equals(st[i].path, normalize(directory)))
    ELSE searchByName(st, pattern)

(***************************************************************************)
(* Directory and File objects                                              *)
(***************************************************************************)
\* Directory.fromJSON(data).toJSON(): type 'directory', no content or size;
\* children, permissions and attributes are data's own (shared)
DirectoryFromJSON(data) == [data EXCEPT !.type = "directory", !.content = "", !.size = 0]

\* File.fromJSON(data).toJSON(): type 'file'; attributes are data's own (shared)
FileFromJSON(data) == [data EXCEPT !.type = "file"]

\* a link step that leaves the children array as it is
addChildOmitted(hp, ref, childId) == hp

addChild(hp, ref, childId) ==
    IF childId \in SeqRange(hp[ref].children) THEN hp
    ELSE [hp EXCEPT ![ref].children = Append(@, childId)]

removeChild(hp, ref, childId) ==
    [hp EXCEPT ![ref].children = SeqRemoveFirst(@, childId)]

hasChildren(hp, ref) == Len(hp[ref].children) > 0

\* File.setContent: content, size, and attributes.archive of the shared object
setContentHeap(hp, ref) == [hp EXCEPT ![ref].archive = TRUE]

(***************************************************************************)
(* Each handler below is written as the chain of its steps: a step is an   *)
(* operator that receives what the step before it produced (the result of  *)
(* an awaited call) and either returns or hands on to the next step.  The  *)
(* steps are listed last-first, the handler's first statement is its IN.   *)
(***************************************************************************)
Ret(s, res) == [s |-> s, res |-> res, val |-> ""]

RetVal(s, res, val) == [s |-> s, res |-> res, val |-> val]

\* this.cache.set(path, obj) / this.cache.delete(path)
CacheSet(s, path, obj) == [s EXCEPT !.cache = MapPut(s.cache, path, obj)]

CacheDelete(s, path) == [s EXCEPT !.cache = MapDel(s.cache, path)]

\* a newly constructed object's own children array and attributes object
NewObject(s, obj, children, archive) ==
    [s EXCEPT !.heap = MapPut(s.heap, obj.ref, [children |-> children, archive |-> archive])]

\* storage.createEntry(obj.toJSON()) / storage.updateEntry(obj.toJSON())
CreateEntryOf(s, obj) == StorageCreateEntry(s, ToRecord(s.heap, obj))

UpdateEntryOf(s, obj) == StorageUpdateEntry(s, ToRecord(s.heap, obj))

(***************************************************************************)
(* VFS.getEntry: cache first, then storage, populating the cache on a hit  *)
(***************************************************************************)
getEntry(s, path0) ==
    LET Fetched(a, path) ==
            [s |-> CacheSet([s EXCEPT !.heap = a.heap], path, a.obj),
             found |-> TRUE, e |-> a.obj]
        Lookup(path) ==
            IF path \in DOMAIN s.cache
            THEN [s |-> s, found |-> TRUE, e |-> s.cache[path]]
            ELSE IF StorageHasPath(s.storage, path)
                 THEN Fetched(FromStorage(s, StorageGetEntryByPath(s.storage, path)), path)
                 ELSE [s |-> s, found |-> FALSE, e |-> NoEntry]
    IN Lookup(normalize(path0))

(***************************************************************************)
(* VFS.createFile                                                          *)
(***************************************************************************)
\* a new File whose size stays the constructor's default
NewFileUnsized(hp, newId, path, name, parentId, content) ==
    [id |-> newId, name |-> IF name = "" THEN "untitled.txt" ELSE name,
     path |-> path, type |-> "file", parentId |-> parentId,
     content |-> content, size |-> 0, ref |-> AllocRef(hp, newId)]

NewFile(hp, newId, path, name, parentId, content) ==
    [id |-> newId, name |-> IF name = "" THEN "untitled.txt" ELSE name,
     path |-> path, type |-> "file", parentId |-> parentId,
     content |-> content, size |-> calculateSize(content), ref |-> AllocRef(hp, newId)]

createFile(s0, path0, content, newId) ==
    LET \* cache.set(path, file); cache.set(parentPath, parent)
        Cached(w, path, parentPath, file, parent) ==
            IF ~w.ok THEN Ret(w.s, "StorageError")
            ELSE Ret(CacheSet(CacheSet(w.s, path, file), parentPath, parent), "ok")
        \* parent.addChild(file.id); await storage.updateEntry(parent.toJSON())
        Linked(s, path, parentPath, file, parent) ==
            Cached(UpdateEntryOf([s EXCEPT !.heap = addChild(s.heap, parent.ref, file.id)],
                                 parent),
                   path, parentPath, file, parent)
        Stored(w, path, parentPath, file, parent) ==
            IF ~w.ok THEN Ret(w.s, "StorageError")
            ELSE Linked(w.s, path, parentPath, file, parent)
        \* new File(...); await storage.createEntry(file.toJSON())
        Built(s, path, parentPath, file, parent) ==
            Stored(CreateEntryOf(NewObject(s, file, <<>>, TRUE), file),
                   path, parentPath, file, parent)
        Parent(pe, path, parentPath) ==
            IF ~pe.found \/ pe.e.type # "directory" THEN Ret(pe.s, "NotFound")
            ELSE Built(pe.s, path, parentPath,
                       NewFile(pe.s.heap, newId, path, basename(path), pe.e.id, content),
                       DirectoryFromJSON(pe.e))
        Exists(ex, path, parentPath) ==
            IF ex.found THEN Ret(ex.s, "AlreadyExists")
            ELSE Parent(getEntry(ex.s, parentPath), path, parentPath)
        Begin(path) == Exists(getEntry(s0, path), path, dirname(path))
    IN Begin(normalize(path0))

(***************************************************************************)
(* VFS.readFile                                                            *)
(***************************************************************************)
readFile(s0, path0) ==
    LET Touched(w, path, file) ==
            IF ~w.ok THEN Ret(w.s, "StorageError")
            ELSE RetVal(CacheSet(w.s, path, file), "ok", file.content)
        \* File.fromJSON(entry), markAccessed, await storage.updateEntry
        Found(s, path, file) == Touched(UpdateEntryOf(s, file), path, file)
        Got(ge, path) ==
            IF ~ge.found THEN Ret(ge.s, "NotFound")
            ELSE IF ge.e.type # "file" THEN Ret(ge.s, "InvalidType")
            ELSE Found(ge.s, path, FileFromJSON(ge.e))
        Begin(path) == Got(getEntry(s0, path), path)
    IN Begin(normalize(path0))

(***************************************************************************)
(* VFS.writeFile                                                           *)
(***************************************************************************)
writeFile(s0, path0, content, newId) ==
    LET Written(w, path, file) ==
            IF ~w.ok THEN Ret(w.s, "StorageError")
            ELSE Ret(CacheSet(w.s, path, file), "ok")
        \* file.setContent(content); await storage.updateEntry(file.toJSON())
        Found(s, path, file) ==
            Written(UpdateEntryOf([s EXCEPT !.heap = setContentHeap(s.heap, file.ref)], file),
                    path, file)
        Got(ge, path) ==
            IF ~ge.found THEN createFile(ge.s, path, content, newId)
            ELSE IF ge.e.type # "file" THEN Ret(ge.s, "InvalidType")
            ELSE Found(ge.s, path,
                       [FileFromJSON(ge.e) EXCEPT !.content = content,
                                                  !.size = calculateSize(content)])
        Begin(path) == Got(getEntry(s0, path), path)
    IN Begin(normalize(path0))

(***************************************************************************)
(* "Remove from parent directory": the block deleteFile and                *)
(* deleteDirectory share                                                   *)
(***************************************************************************)
unlinkFromParent(s0, path, entryId) ==
    LET Updated(w, parentPath, parent) ==
            IF ~w.ok THEN [ok |-> FALSE, s |-> w.s]
            ELSE [ok |-> TRUE, s |-> CacheSet(w.s, parentPath, parent)]
        \* parent.removeChild(entry.id); await storage.updateEntry(parent.toJSON())
        Found(s, parentPath, parent) ==
            Updated(UpdateEntryOf([s EXCEPT !.heap = removeChild(s.heap, parent.ref, entryId)],
                                  parent),
                    parentPath, parent)
        Got(pe, parentPath) ==
            IF ~pe.found THEN [ok |-> TRUE, s |-> pe.s]
            ELSE Found(pe.s, parentPath, DirectoryFromJSON(pe.e))
        Begin(parentPath) == Got(getEntry(s0, parentPath), parentPath)
    IN Begin(dirname(path))

\* "Delete file" / "Delete directory": storage.deleteEntry, then cache.delete
removeEntry(u, path, entryId) ==
    LET Deleted(w) ==
            IF ~w.ok THEN Ret(w.s, "StorageError")
            ELSE Ret(CacheDelete(w.s, path), "ok")
    IN IF ~u.ok THEN Ret(u.s, "StorageError")
       ELSE Deleted(StorageDeleteEntry(u.s, entryId))

(***************************************************************************)
(* VFS.deleteFile                                                          *)
(***************************************************************************)
deleteFile(s0, path0) ==
    LET Got(ge, path) ==
            IF ~ge.found THEN Ret(ge.s, "NotFound")
            ELSE IF ge.e.type # "file" THEN Ret(ge.s, "InvalidType")
            ELSE removeEntry(unlinkFromParent(ge.s, path, ge.e.id), path, ge.e.id)
        Begin(path) == Got(getEntry(s0, path), path)
    IN Begin(normalize(path0))

(***************************************************************************)
(* VFS.createDirectory                                                     *)
(***************************************************************************)
NewDirectory(hp, newId, path, name, parentId) ==
    [id |-> newId, name |-> IF name = "" THEN "New Folder" ELSE name,
     path |-> path, type |-> "directory", parentId |-> parentId,
     content |-> "", size |-> 0, ref |-> AllocRef(hp, newId)]

createDirectory(s0, path0, newId) ==
    LET Cached(w, path, parentPath, dir, parent) ==
            IF ~w.ok THEN Ret(w.s, "StorageError")
            ELSE Ret(CacheSet(CacheSet(w.s, path, dir), parentPath, parent), "ok")
        \* parent.addChild(dir.id); await storage.updateEntry(parent.toJSON())
        Linked(s, path, parentPath, dir, parent) ==
            Cached(UpdateEntryOf([s EXCEPT !.heap = addChild(s.heap, parent.ref, dir.id)],
                                 parent),
                   path, parentPath, dir, parent)
        Stored(w, path, parentPath, dir, parent) ==
            IF ~w.ok THEN Ret(w.s, "StorageError")
            ELSE Linked(w.s, path, parentPath, dir, parent)
        \* new Directory(...); await storage.createEntry(dir.toJSON())
        Built(s, path, parentPath, dir, parent) ==
            Stored(CreateEntryOf(NewObject(s, dir, <<>>, FALSE), dir),
                   path, parentPath, dir, parent)
        Parent(pe, path, parentPath) ==
            IF ~pe.found \/ pe.e.type # "directory" THEN Ret(pe.s, "NotFound")
            ELSE Built(pe.s, path, parentPath,
                       NewDirectory(pe.s.heap, newId, path, basename(path), pe.e.id),
                       DirectoryFromJSON(pe.e))
        Exists(ex, path, parentPath) ==
            IF ex.found THEN Ret(ex.s, "AlreadyExists")
            ELSE Parent(getEntry(ex.s, parentPath), path, parentPath)
        Begin(path) == Exists(getEntry(s0, path), path, dirname(path))
    IN Begin(normalize(path0))

(***************************************************************************)
(* VFS.listDirectory                                                       *)
(***************************************************************************)
listDirectory(s0, path0) ==
    LET Touched(w, path, dir, children) ==
            IF ~w.ok THEN Ret(w.s, "StorageError")
            ELSE RetVal(CacheSet(w.s, path, dir), "ok",
                        [k \in 1..Len(children) |-> children[k].id])
        \* storage.getChildren, Directory.fromJSON, markAccessed, storage.updateEntry
        Found(s, path, dir) ==
            Touched(UpdateEntryOf(s, dir), path, dir, StorageGetChildren(s.storage, dir.id))
        Got(ge, path) ==
            IF ~ge.found THEN Ret(ge.s, "NotFound")
            ELSE IF ge.e.type # "directory" THEN Ret(ge.s, "InvalidType")
            ELSE Found(ge.s, path, DirectoryFromJSON(ge.e))
        Begin(path) == Got(getEntry(s0, path), path)
    IN Begin(normalize(path0))

(***************************************************************************)
(* VFS.deleteDirectory.  depth bounds the nesting of the recursive calls:  *)
(* a call that nests deeper than there are entries never returns.          *)
(***************************************************************************)
RECURSIVE deleteDirectory(_, _, _, _)
RECURSIVE deleteChildren(_, _, _, _)

\* for (const child of children) ...
deleteChildren(s, children, k, depth) ==
    LET Next1(r) == IF r.res # "ok" THEN r ELSE deleteChildren(r.s, children, k + 1, depth)
        Child(child) ==
            Next1(IF child.type = "directory"
                  THEN deleteDirectory(s, child.path, TRUE, depth)
                  ELSE deleteFile(s, child.path))
    IN IF k > Len(children) THEN Ret(s, "ok") ELSE Child(children[k])

deleteDirectory(s0, path0, recursive, depth) ==
    LET Emptied(c, path, entryId) ==
            IF c.res # "ok" THEN c
            ELSE removeEntry(unlinkFromParent(c.s, path, entryId), path, entryId)
        Found(s, path, dir) ==
            IF hasChildren(s.heap, dir.ref) /\ ~recursive THEN Ret(s, "DirectoryNotEmpty")
            ELSE Emptied(IF recursive /\ hasChildren(s.heap, dir.ref)
                         THEN deleteChildren(s, StorageGetChildren(s.storage, dir.id), 1,
                                             depth - 1)
                         ELSE Ret(s, "ok"),
                         path, dir.id)
        Got(ge, path) ==
            IF ~ge.found THEN Ret(ge.s, "NotFound")
            ELSE IF ge.e.type # "directory" THEN Ret(ge.s, "InvalidType")
            ELSE Found(ge.s, path, DirectoryFromJSON(ge.e))
        Begin(path) == Got(getEntry(s0, path), path)
    IN IF depth = 0 THEN Ret(s0, "NoReturn") ELSE Begin(normalize(path0))

(***************************************************************************)
(* VFS.rename: the entry it assigns to is the cached object itself         *)
(***************************************************************************)
\* a rename whose cache update is cache.set(newPath, entry) alone: the entry
\* stays cached under oldPath as well
renameKeepingOldKey(s0, oldPath0, newPath0) ==
    LET Updated(w, newPath, entry) ==
            IF ~w.ok THEN Ret(w.s, "StorageError")
            ELSE Ret(CacheSet(w.s, newPath, entry), "ok")
        Found(s, oldPath, newPath, entry) ==
            Updated(UpdateEntryOf(CacheSet(s, oldPath, entry), entry), newPath, entry)
        Got(ge, oldPath, newPath) ==
            IF ~ge.found THEN Ret(ge.s, "NotFound")
            ELSE Found(ge.s, oldPath, newPath,
                       [ge.e EXCEPT !.name = basename(newPath), !.path = newPath])
        Begin(oldPath, newPath) == Got(getEntry(s0, oldPath), oldPath, newPath)
    IN Begin(normalize(oldPath0), normalize(newPath0))

rename(s0, oldPath0, newPath0) ==
    LET \* cache.delete(oldPath); cache.set(newPath, entry)
        Updated(w, oldPath, newPath, entry) ==
            IF ~w.ok THEN Ret(w.s, "StorageError")
            ELSE Ret(CacheSet(CacheDelete(w.s, oldPath), newPath, entry), "ok")
        \* entry.name = ...; entry.path = ...; await storage.updateEntry(entry)
        Found(s, oldPath, newPath, entry) ==
            Updated(UpdateEntryOf(CacheSet(s, oldPath, entry), entry), oldPath, newPath, entry)
        Got(ge, oldPath, newPath) ==
            IF ~ge.found THEN Ret(ge.s, "NotFound")
            ELSE Found(ge.s, oldPath, newPath,
                       [ge.e EXCEPT !.name = basename(newPath), !.path = newPath])
        Begin(oldPath, newPath) == Got(getEntry(s0, oldPath), oldPath, newPath)
    IN Begin(normalize(oldPath0), normalize(newPath0))

(***************************************************************************)
(* VFS.getInfo / VFS.exists                                                *)
(***************************************************************************)
getInfo(s0, path0) ==
    LET Got(ge) == RetVal(ge.s, IF ge.found THEN "ok" ELSE "None", ge.e)
    IN Got(getEntry(s0, normalize(path0)))

(***************************************************************************)
(* VFS.copyFile and VFS.moveFile                                           *)
(***************************************************************************)
copyFile(s0, srcPath, destPath, newId) ==
    LET Info(srcInfo, content) == createFile(srcInfo.s, destPath, content, newId)
        Read(r) == IF r.res # "ok" THEN r ELSE Info(getInfo(r.s, srcPath), r.val)
    IN Read(readFile(s0, srcPath))

moveFile(s0, srcPath, destPath, newId) ==
    LET Copied(c) == IF c.res # "ok" THEN c ELSE deleteFile(c.s, srcPath)
    IN Copied(copyFile(s0, srcPath, destPath, newId))

(***************************************************************************)
(* VFS.initialize, createDefaultStructure and buildCache                   *)
(***************************************************************************)
EmptyMap == [x \in {} |-> x]

RECURSIVE createDefaultStructure(_, _, _)
createDefaultStructure(s, entries, k) ==
    LET Created(w) == IF ~w.ok THEN w ELSE createDefaultStructure(w.s, entries, k + 1)
    IN IF k > Len(entries) THEN [ok |-> TRUE, s |-> s]
       ELSE Created(StorageCreateEntry(s, entries[k]))

\* Storage.setMetadata: a put into the 'metadata' store
StorageSetMetadata(s) == [ok |-> ~Injected(s), s |-> Tick(s)]

RECURSIVE cacheAll(_, _, _)
cacheAll(s, ids, k) ==
    LET Set(a, path) ==
            cacheAll(CacheSet([s EXCEPT !.heap = a.heap], path, a.obj), ids, k + 1)
    IN IF k > Len(ids) THEN s
       ELSE Set(FromStorage(s, s.storage[ids[k]]), s.storage[ids[k]].path)

buildCache(s) ==
    cacheAll(Collect([s EXCEPT !.cache = EmptyMap]),
             SelectSeq(IdOrder, LAMBDA i : i \in DOMAIN s.storage), 1)

\* the result carries the metadata store and VFS.initialized as well
initialize(s0, meta) ==
    LET Failed(s, m) == [s |-> s, meta |-> m, ready |-> FALSE, res |-> "StorageError"]
        Ready(s, m) == [s |-> buildCache(s), meta |-> m, ready |-> TRUE, res |-> "ok"]
        Versioned(m2) ==
            IF ~m2.ok THEN Failed(m2.s, meta \cup {"initialized"})
            ELSE Ready(m2.s, meta \cup {"initialized", "version"})
        Flagged(m1) ==
            IF ~m1.ok THEN Failed(m1.s, meta) ELSE Versioned(StorageSetMetadata(m1.s))
        Seeded(seeded) ==
            IF ~seeded.ok THEN Failed(seeded.s, meta)
            ELSE Flagged(StorageSetMetadata(seeded.s))
    IN IF "initialized" \in meta THEN Ready(s0, meta)
       ELSE Seeded(createDefaultStructure(s0, DefaultStructureCreate, 1))

(***************************************************************************)
(* In-flight calls (none in the sequential specifications)                 *)
(***************************************************************************)
Procs == 1..2

IdleProc ==
    [pc |-> "idle", op |-> "none", path |-> <<>>, path2 |-> <<>>, content |-> "",
     entry |-> NoEntry, parent |-> NoEntry, ids |-> {}, refs |-> {}, res |-> "none",
     k |-> 0]

Pins == UNION {procs[i].refs : i \in Procs}

(***************************************************************************)
(* Inputs                                                                  *)
(***************************************************************************)
Root == <<"C:">>
Windows == <<"C:", "Windows">>
Temp == <<"C:", "Windows", "Temp">>
SystemIni == <<"C:", "Windows", "system.ini">>
RecycleBin == <<"C:", "Recycle Bin">>
TempA == <<"C:", "Windows", "Temp", "a.txt">>
RecycleA == <<"C:", "Recycle Bin", "a.txt">>
TempB == <<"C:", "Windows", "Temp", "b.txt">>

Desktop == UserPath \o <<"Desktop">>
NewFolder == <<"C:", "New Folder">>
NewA == <<"C:", "New Folder", "a.txt">>
\* 'C:/Windows/./Temp/../Temp//a.txt' split at its separators
TempARaw == <<"C:", "Windows", ".", "Temp", "..", "Temp", "", "a.txt">>

\* paths handed to createFile / writeFile
CreatePaths == {TempA, TempARaw, RecycleA, SystemIni}
\* paths handed to writeFile
WritePaths == CreatePaths \cup {Temp}
\* paths handed to readFile / deleteFile
FilePaths == {TempA, SystemIni, Temp}
\* paths handed to createDirectory / listDirectory
DirPaths == {Temp, NewFolder, SystemIni}
\* paths handed to deleteDirectory
DeleteDirPaths == {Root, Desktop, Temp, RecycleBin, SystemIni}
\* (oldPath, newPath) handed to rename
RenamePairs == {<<Temp, RecycleBin>>, <<Temp, NewFolder>>, <<TempA, RecycleA>>,
                <<TempA, NewA>>, <<Root, NewFolder>>, <<TempA, TempB>>}
\* (srcPath, destPath) handed to copyFile / moveFile
CopyPairs == {<<SystemIni, TempA>>, <<TempA, RecycleA>>}
\* paths handed to getInfo
InfoPaths == {Temp, TempA, TempARaw, RecycleBin}

Contents == {"hi"}

\* (path, content) handed to createFile
CreateInputs == (CreatePaths \X Contents) \cup {<<RecycleA, "">>, <<TempA, "abc">>}

(***************************************************************************)
(* The sequential specification: coordinator calls issued one at a time,   *)
(* each run to completion; no storage failure is injected (the unique      *)
(* path index still rejects writes).                                       *)
(***************************************************************************)
Start(k) == State(storage, cache, heap, k, Pins)

FilePool == SubSeq(FileIdNames, 1, MaxNewIds)
DirPool == SubSeq(DirIdNames, 1, MaxNewIds)

Used == UsedIds(storage, cache, heap, procs)

CanGenerate(pool) == \E i \in 1..Len(pool) : pool[i] \notin Used

\* val: what a search or a PathResolver call returned; sink: this.kernel
\* (none: null); events: what the call handed to this.kernel.emit, in order
Call(op, path, path2, res) ==
    [op |-> op, path |-> path, path2 |-> path2, res |-> res, val |-> <<>>,
     sink |-> "none", events |-> <<>>]

\* the call's effect on the coordinator and its storage; the callers of the
\* sequential specifications issue their calls after initialize() has returned
Return(op, path, path2, r) ==
    /\ initialized
    /\ calls < MaxCalls
    /\ calls' = calls + 1
    /\ storage' = r.s.storage
    /\ cache' = r.s.cache
    /\ heap' = Collect(r.s).heap
    /\ last' = Call(op, path, path2, r.res)
    /\ UNCHANGED <<metadata, initialized, db, procs, queue>>

Init ==
    /\ storage = EmptyMap
    /\ metadata = {}
    /\ cache = EmptyMap
    /\ heap = EmptyMap
    /\ initialized = FALSE
    /\ db = FALSE
    /\ last = Call("none", <<>>, <<>>, "none")
    /\ calls = 0
    /\ procs = [i \in Procs |-> IdleProc]
    /\ queue = <<>>

InitializeF(k) ==
    LET r == initialize(Start(k), metadata) IN
    /\ calls < MaxCalls
    /\ calls' = calls + 1
    /\ storage' = r.s.storage
    /\ cache' = r.s.cache
    /\ heap' = Collect(r.s).heap
    /\ metadata' = r.meta
    /\ initialized' = (initialized \/ r.ready)
    /\ db' = TRUE
    /\ last' = Call("initialize", <<>>, <<>>, r.res)
    /\ UNCHANGED <<procs, queue>>

CreateFileF(k) ==
    \E pc \in CreateInputs :
        /\ CanGenerate(FilePool)
        /\ Return("createFile", normalize(pc[1]), <<>>,
                  createFile(Start(k), pc[1], pc[2], generateId(FilePool, Used)))

ReadFileF(k) ==
    \E p \in FilePaths : Return("readFile", normalize(p), <<>>, readFile(Start(k), p))

WriteFileF(k) ==
    \E p \in WritePaths, c \in Contents :
        /\ CanGenerate(FilePool)
        /\ Return("writeFile", normalize(p), <<>>,
                  writeFile(Start(k), p, c, generateId(FilePool, Used)))

DeleteFileF(k) ==
    \E p \in FilePaths : Return("deleteFile", normalize(p), <<>>, deleteFile(Start(k), p))

CreateDirectoryF(k) ==
    \E p \in DirPaths :
        /\ CanGenerate(DirPool)
        /\ Return("createDirectory", normalize(p), <<>>,
                  createDirectory(Start(k), p, generateId(DirPool, Used)))

ListDirectoryF(k) ==
    \E p \in DirPaths : Return("listDirectory", normalize(p), <<>>, listDirectory(Start(k), p))

DeleteDirectoryF(k) ==
    \E p \in DeleteDirPaths, recursive \in BOOLEAN :
        Return(IF recursive THEN "deleteDirectoryRecursive" ELSE "deleteDirectory",
               normalize(p), <<>>,
               deleteDirectory(Start(k), p, recursive, Cardinality(DOMAIN storage) + 1))

RenameF(k) ==
    \E pq \in RenamePairs :
        Return("rename", normalize(pq[1]), normalize(pq[2]), rename(Start(k), pq[1], pq[2]))

CopyFileF(k) ==
    \E pq \in CopyPairs :
        /\ CanGenerate(FilePool)
        /\ Return("copyFile", normalize(pq[1]), normalize(pq[2]),
                  copyFile(Start(k), pq[1], pq[2], generateId(FilePool, Used)))

MoveFileF(k) ==
    \E pq \in CopyPairs :
        /\ CanGenerate(FilePool)
        /\ Return("moveFile", normalize(pq[1]), normalize(pq[2]),
                  moveFile(Start(k), pq[1], pq[2], generateId(FilePool, Used)))

GetInfoF ==
    \E p \in InfoPaths : Return("getInfo", normalize(p), <<>>, getInfo(Start(0), p))

Initialize == InitializeF(0)
CreateFile == CreateFileF(0)
ReadFile == ReadFileF(0)
WriteFile == WriteFileF(0)
DeleteFile == DeleteFileF(0)
CreateDirectory == CreateDirectoryF(0)
ListDirectory == ListDirectoryF(0)
DeleteDirectory == DeleteDirectoryF(0)
Rename == RenameF(0)
CopyFile == CopyFileF(0)
MoveFile == MoveFileF(0)
GetInfo == GetInfoF

Next ==
    \/ Initialize
    \/ CreateFile
    \/ ReadFile
    \/ WriteFile
    \/ DeleteFile
    \/ CreateDirectory
    \/ ListDirectory
    \/ DeleteDirectory
    \/ Rename
    \/ CopyFile
    \/ MoveFile
    \/ GetInfo

Spec == Init /\ [][Next]_vars

(***************************************************************************)
(* The specification with storage failures: calls issued one at a time,    *)
(* each run to completion, where the k-th storage write of a call may be   *)
(* rejected (a failed request or an aborted transaction), k = 0 meaning    *)
(* that none is.                                                           *)
(***************************************************************************)
FaultAt == 0..MaxFaultAt

Unfinished == calls < MaxFaultCalls

FaultInitialize == Unfinished /\ \E k \in FaultAt : InitializeF(k)
FaultCreateFile == Unfinished /\ \E k \in FaultAt : CreateFileF(k)
FaultWriteFile == Unfinished /\ \E k \in FaultAt : WriteFileF(k)
FaultReadFile == Unfinished /\ \E k \in FaultAt : ReadFileF(k)
FaultDeleteFile == Unfinished /\ \E k \in FaultAt : DeleteFileF(k)
FaultCreateDirectory == Unfinished /\ \E k \in FaultAt : CreateDirectoryF(k)
FaultDeleteDirectory == Unfinished /\ \E k \in FaultAt : DeleteDirectoryF(k)
FaultRename == Unfinished /\ \E k \in FaultAt : RenameF(k)
FaultCopyFile == Unfinished /\ \E k \in FaultAt : CopyFileF(k)
FaultMoveFile == Unfinished /\ \E k \in FaultAt : MoveFileF(k)

NextFault ==
    \/ FaultInitialize
    \/ FaultCreateFile
    \/ FaultWriteFile
    \/ FaultReadFile
    \/ FaultDeleteFile
    \/ FaultCreateDirectory
    \/ FaultDeleteDirectory
    \/ FaultRename
    \/ FaultCopyFile
    \/ FaultMoveFile

SpecFault == Init /\ [][NextFault]_vars

(***************************************************************************)
(* The specification with calls in flight.  createFile and rename are      *)
(* taken one await at a time: a call runs from one storage request to the  *)
(* next, the requests wait in `queue`, and IndexedDB executes and answers  *)
(* them in the order they were made (every request is its own transaction  *)
(* on the 'entries' store).  An await that is answered from the cache      *)
(* yields to no storage event and belongs to the step it is in.            *)
(* A record handed to add/put is cloned when the request is made.          *)
(***************************************************************************)
NoRecord ==
    [id |-> NullId, name |-> "", path |-> <<>>, type |-> "none", parentId |-> NullId,
     children |-> <<>>, content |-> "", size |-> 0, archive |-> FALSE]

Request(i, kind, path, rec) == [proc |-> i, kind |-> kind, path |-> path, rec |-> rec]

\* what a step leaves: the state, the call's locals, the requests it made
Out(s, proc, reqs) == [s |-> s, proc |-> proc, reqs |-> reqs]

\* the call returns or throws
Finished(s, proc, res) ==
    Out(s, [proc EXCEPT !.pc = "done", !.res = res, !.ids = {}, !.refs = {}], <<>>)

\* getEntry's storage branch, when the awaited getEntryByPath has answered
getEntryAnswered(s, path) ==
    LET Fetched(a) ==
            [s |-> CacheSet([s EXCEPT !.heap = a.heap], path, a.obj),
             found |-> TRUE, e |-> a.obj]
    IN IF StorageHasPath(s.storage, path)
       THEN Fetched(FromStorage(s, StorageGetEntryByPath(s.storage, path)))
       ELSE [s |-> s, found |-> FALSE, e |-> NoEntry]

\* createFile from the parent check to the await of storage.createEntry;
\* createDirectory takes the same steps with a new Directory
createFileBuild(s0, i, proc, parentEntry, newId) ==
    LET Sent(s, file) ==
            Out(s, [proc EXCEPT !.pc = "created", !.entry = file, !.parent = parentEntry,
                                !.ids = {newId}, !.refs = {file.ref, parentEntry.ref}],
                <<Request(i, "add", file.path, ToRecord(s.heap, file))>>)
        Built(file) == Sent(NewObject(s0, file, <<>>, file.type = "file"), file)
    IN IF parentEntry.type # "directory" THEN Finished(s0, proc, "NotFound")
       ELSE IF proc.op = "createDirectory"
       THEN Built(NewDirectory(s0.heap, newId, proc.path, basename(proc.path),
                               parentEntry.id))
       ELSE Built(NewFile(s0.heap, newId, proc.path, basename(proc.path),
                          parentEntry.id, proc.content))

\* createFile from `const parentEntry = await this.getEntry(parentPath)`
createFileParent(s, i, proc, newId) ==
    IF dirname(proc.path) \in DOMAIN s.cache
    THEN createFileBuild(s, i, proc, s.cache[dirname(proc.path)], newId)
    ELSE Out(s, [proc EXCEPT !.pc = "parent"],
             <<Request(i, "get", dirname(proc.path), NoRecord)>>)

\* createFile up to its first storage request
createFileBegin(s, i, path0, content) ==
    LET Begin(proc) ==
            IF proc.path \in DOMAIN s.cache THEN Finished(s, proc, "AlreadyExists")
            ELSE Out(s, [proc EXCEPT !.pc = "exists"],
                     <<Request(i, "get", proc.path, NoRecord)>>)
    IN Begin([IdleProc EXCEPT !.op = "createFile", !.path = normalize(path0),
                              !.content = content])

\* `await this.exists(path)` has answered from storage
createFileAfterExists(s, i, proc, newId) ==
    LET Got(ex) ==
            IF ex.found THEN Finished(ex.s, proc, "AlreadyExists")
            ELSE createFileParent(ex.s, i, proc, newId)
    IN Got(getEntryAnswered(s, proc.path))

\* `await this.getEntry(parentPath)` has answered from storage
createFileAfterParent(s, i, proc, newId) ==
    LET Got(pe) ==
            IF ~pe.found THEN Finished(pe.s, proc, "NotFound")
            ELSE createFileBuild(pe.s, i, proc, pe.e, newId)
    IN Got(getEntryAnswered(s, dirname(proc.path)))

\* storage.createEntry has answered: Directory.fromJSON, addChild, updateEntry
createFileAfterInsert(s0, i, proc, req) ==
    LET Sent(s, parent) ==
            Out(s, [proc EXCEPT !.pc = "linked", !.parent = parent],
                <<Request(i, "put", parent.path, ToRecord(s.heap, parent))>>)
        Linked(s, parent) ==
            Sent([s EXCEPT !.heap = addChild(s.heap, parent.ref, proc.entry.id)], parent)
        Stored(w) ==
            IF ~w.ok THEN Finished(w.s, proc, "StorageError")
            ELSE Linked(w.s, DirectoryFromJSON(proc.parent))
    IN Stored(StorageCreateEntry(s0, req.rec))

\* storage.updateEntry(parent) has answered: the two cache.set
createFileAfterLink(s0, i, proc, req) ==
    LET Updated(w) ==
            IF ~w.ok THEN Finished(w.s, proc, "StorageError")
            ELSE Finished(CacheSet(CacheSet(w.s, proc.path, proc.entry),
                                   dirname(proc.path), proc.parent),
                          proc, "ok")
    IN Updated(StorageUpdateEntry(s0, req.rec))

\* rename from the assignments to the cached entry to the await of updateEntry
renameAssign(s0, i, proc, e) ==
    LET Sent(s, entry) ==
            Out(s, [proc EXCEPT !.pc = "renaming", !.entry = entry, !.refs = {entry.ref}],
                <<Request(i, "put", entry.path, ToRecord(s.heap, entry))>>)
        Assigned(entry) == Sent(CacheSet(s0, proc.path, entry), entry)
    IN Assigned([e EXCEPT !.name = basename(proc.path2), !.path = proc.path2])

\* rename up to its first storage request
renameBegin(s, i, oldPath0, newPath0) ==
    LET Begin(proc) ==
            IF proc.path \in DOMAIN s.cache
            THEN renameAssign(s, i, proc, s.cache[proc.path])
            ELSE Out(s, [proc EXCEPT !.pc = "lookup"],
                     <<Request(i, "get", proc.path, NoRecord)>>)
    IN Begin([IdleProc EXCEPT !.op = "rename", !.path = normalize(oldPath0),
                              !.path2 = normalize(newPath0)])

\* `await this.getEntry(oldPath)` has answered from storage
renameAfterLookup(s, i, proc) ==
    LET Got(ge) ==
            IF ~ge.found THEN Finished(ge.s, proc, "NotFound")
            ELSE renameAssign(ge.s, i, proc, ge.e)
    IN Got(getEntryAnswered(s, proc.path))

\* storage.updateEntry(entry) has answered: cache.delete, cache.set
renameAfterUpdate(s0, i, proc, req) ==
    LET Updated(w) ==
            IF ~w.ok THEN Finished(w.s, proc, "StorageError")
            ELSE Finished(CacheSet(CacheDelete(w.s, proc.path), proc.path2, proc.entry),
                          proc, "ok")
    IN Updated(StorageUpdateEntry(s0, req.rec))

RecycleB == <<"C:", "Recycle Bin", "b.txt">>
TempC == <<"C:", "Windows", "Temp", "c.txt">>

\* paths handed to the createFile of each of the two callers
ConcCreatePaths == <<{TempA, RecycleA}, {TempB, RecycleB}>>
\* (oldPath, newPath) handed to the rename in flight
ConcRenamePairs == {<<TempA, TempC>>}
\* what the calls issued beforehand, one at a time, are given
PreludeRenamePairs == {<<Temp, RecycleBin>>, <<Temp, NewFolder>>}
PreludeDirPaths == {Temp, RecycleBin}

NoneInFlight == \A i \in Procs : procs[i].pc = "idle"

\* a step of call i takes effect
Commit(i, rest, o) ==
    /\ storage' = o.s.storage
    /\ cache' = o.s.cache
    /\ heap' = Collect([o.s EXCEPT !.pins =
                          o.proc.refs \cup UNION {procs[j].refs : j \in Procs \ {i}}]).heap
    /\ procs' = [procs EXCEPT ![i] = o.proc]
    /\ queue' = rest \o o.reqs
    /\ UNCHANGED <<metadata, initialized, db, last, calls>>

\* the request IndexedDB answers next belongs to call i, which waits at pc
Answered(i, pc) == queue # <<>> /\ Head(queue).proc = i /\ procs[i].pc = pc

PreludeInitialize == NoneInFlight /\ calls < MaxPrelude /\ InitializeF(0)

PreludeRename ==
    /\ NoneInFlight /\ calls < MaxPrelude
    /\ \E pq \in PreludeRenamePairs :
           Return("rename", normalize(pq[1]), normalize(pq[2]), rename(Start(0), pq[1], pq[2]))

PreludeDeleteDirectory ==
    /\ NoneInFlight /\ calls < MaxPrelude
    /\ \E p \in PreludeDirPaths :
           Return("deleteDirectory", normalize(p), <<>>,
                  deleteDirectory(Start(0), p, FALSE, Cardinality(DOMAIN storage) + 1))

PreludeListDirectory ==
    /\ NoneInFlight /\ calls < MaxPrelude
    /\ \E p \in PreludeDirPaths :
           Return("listDirectory", normalize(p), <<>>, listDirectory(Start(0), p))

CreateFileBegin ==
    \E i \in Procs :
        /\ initialized /\ procs[i].pc = "idle"
        /\ \E p \in ConcCreatePaths[i], c \in Contents :
               Commit(i, queue, createFileBegin(Start(0), i, p, c))

\* the ids a call's new entry is drawn from
PoolOf(i) == IF procs[i].op = "createDirectory" THEN DirPool ELSE FilePool

CreateFileAfterExists ==
    \E i \in Procs :
        /\ Answered(i, "exists") /\ CanGenerate(PoolOf(i))
        /\ Commit(i, Tail(queue),
                  createFileAfterExists(Start(0), i, procs[i], generateId(PoolOf(i), Used)))

CreateFileAfterParent ==
    \E i \in Procs :
        /\ Answered(i, "parent") /\ CanGenerate(PoolOf(i))
        /\ Commit(i, Tail(queue),
                  createFileAfterParent(Start(0), i, procs[i], generateId(PoolOf(i), Used)))

CreateFileAfterInsert ==
    \E i \in Procs :
        /\ Answered(i, "created")
        /\ Commit(i, Tail(queue), createFileAfterInsert(Start(0), i, procs[i], Head(queue)))

CreateFileAfterLink ==
    \E i \in Procs :
        /\ Answered(i, "linked")
        /\ Commit(i, Tail(queue), createFileAfterLink(Start(0), i, procs[i], Head(queue)))

RenameBegin ==
    \E pq \in ConcRenamePairs :
        /\ initialized /\ procs[2].pc = "idle"
        /\ Commit(2, queue, renameBegin(Start(0), 2, pq[1], pq[2]))

RenameAfterLookup ==
    \E i \in Procs :
        /\ Answered(i, "lookup")
        /\ Commit(i, Tail(queue), renameAfterLookup(Start(0), i, procs[i]))

RenameAfterUpdate ==
    \E i \in Procs :
        /\ Answered(i, "renaming")
        /\ Commit(i, Tail(queue), renameAfterUpdate(Start(0), i, procs[i], Head(queue)))

\* the directory handed to the deleteDirectory(path, true) that is invoked
\* while the rename is in flight
ConcDeletePaths == {Temp}

\* deleteDirectory(path, true) is invoked while the rename waits for its
\* updateEntry.  The directory is cached and has children: the call runs up to
\* its first storage request, storage.getChildren(dir.id), which waits behind
\* the rename's write.
DeleteDirectoryBegin ==
    \E p \in ConcDeletePaths :
        /\ initialized /\ procs[1].pc \in {"idle", "done"} /\ procs[2].pc = "renaming"
        /\ p \in DOMAIN cache /\ cache[p].type = "directory"
        /\ hasChildren(heap, cache[p].ref)
        /\ Commit(1, queue,
                  Out(Start(0),
                      [IdleProc EXCEPT !.op = "deleteDirectoryRecursive", !.pc = "children",
                                       !.path = p, !.entry = cache[p],
                                       !.refs = {cache[p].ref}],
                      <<Request(1, "getChildren", p, NoRecord)>>))

\* getChildren has answered, so the rename has returned: no other call is in
\* flight and the rest of deleteDirectory runs undisturbed.  The rename in
\* flight (ConcRenamePairs) did not touch the directory's cached entry, which
\* is read again here.
DeleteDirectoryAfterChildren ==
    /\ Answered(1, "children")
    /\ Commit(1, Tail(queue),
              Finished(deleteDirectory(Start(0), procs[1].path, TRUE,
                                       Cardinality(DOMAIN storage) + 1).s,
                       procs[1],
                       deleteDirectory(Start(0), procs[1].path, TRUE,
                                       Cardinality(DOMAIN storage) + 1).res))

NextConc ==
    \/ PreludeInitialize
    \/ PreludeRename
    \/ PreludeDeleteDirectory
    \/ PreludeListDirectory
    \/ CreateFileBegin
    \/ CreateFileAfterExists
    \/ CreateFileAfterParent
    \/ CreateFileAfterInsert
    \/ CreateFileAfterLink
    \/ RenameBegin
    \/ RenameAfterLookup
    \/ RenameAfterUpdate
    \/ DeleteDirectoryBegin
    \/ DeleteDirectoryAfterChildren

SpecConc == Init /\ [][NextConc]_vars

(***************************************************************************)
(* The lifecycle specification: calls issued one at a time, each run to    *)
(* completion, at any moment of the coordinator's life: before the first   *)
(* initialize(), after an initialize() that a rejected storage write made  *)
(* fail, after reset().  Only initialize() has a write rejected here.      *)
(***************************************************************************)
\* the writes of initialize(): one createEntry per default entry, then the
\* two setMetadata
SeedFaultAt == 0..(Len(DefaultStructureCreate) + 2)

\* a call on the coordinator as it is; with Storage.db still null the first
\* storage access (this.db.transaction) throws a TypeError
Invoke(op, path, path2, r) ==
    /\ calls < MaxCalls
    /\ calls' = calls + 1
    /\ IF db
       THEN /\ storage' = r.s.storage
            /\ cache' = r.s.cache
            /\ heap' = Collect(r.s).heap
            /\ last' = Call(op, path, path2, r.res)
       ELSE /\ UNCHANGED <<storage, cache, heap>>
            /\ last' = Call(op, path, path2, "TypeError")
    /\ UNCHANGED <<metadata, initialized, db, procs, queue>>

LifeInitialize == \E k \in SeedFaultAt : InitializeF(k)

\* VFS.reset: storage.clearAll(), cache.clear(), initialized = false
Reset ==
    /\ calls < MaxCalls
    /\ calls' = calls + 1
    /\ IF db
       THEN /\ storage' = EmptyMap
            /\ metadata' = {}
            /\ cache' = EmptyMap
            /\ heap' = Collect(State(EmptyMap, EmptyMap, heap, 0, Pins)).heap
            /\ initialized' = FALSE
            /\ last' = Call("reset", <<>>, <<>>, "ok")
       ELSE /\ UNCHANGED <<storage, metadata, cache, heap, initialized>>
            /\ last' = Call("reset", <<>>, <<>>, "TypeError")
    /\ UNCHANGED <<db, procs, queue>>

\* a path under a sample file, a path under a directory that is not there,
\* 'C:\\Windows\\Temp\\A.TXT'
IniChild == <<"C:", "Windows", "system.ini", "x.txt">>
TempAUpper == <<"C:", "Windows", "Temp", "A.TXT">>
LifePaths == {IniChild, NewA, TempAUpper}

LifeCreateFile ==
    \E p \in CreatePaths \cup LifePaths, c \in Contents :
        /\ CanGenerate(FilePool)
        /\ Invoke("createFile", normalize(p), <<>>,
                  createFile(Start(0), p, c, generateId(FilePool, Used)))

LifeCreateDirectory ==
    \E p \in DirPaths \cup LifePaths :
        /\ CanGenerate(DirPool)
        /\ Invoke("createDirectory", normalize(p), <<>>,
                  createDirectory(Start(0), p, generateId(DirPool, Used)))

LifeReadFile ==
    \E p \in FilePaths : Invoke("readFile", normalize(p), <<>>, readFile(Start(0), p))

LifeGetInfo ==
    \E p \in InfoPaths : Invoke("getInfo", normalize(p), <<>>, getInfo(Start(0), p))

NextLife ==
    \/ LifeInitialize
    \/ Reset
    \/ LifeCreateFile
    \/ LifeCreateDirectory
    \/ LifeReadFile
    \/ LifeGetInfo

SpecLife == Init /\ [][NextLife]_vars

(***************************************************************************)
(* The start-up specification: initialize() calls on one coordinator, one  *)
(* await at a time, so that two of them may overlap.  A request waits in   *)
(* `queue` behind the earlier requests on the same object store ('entries' *)
(* or 'metadata'); requests on different stores are not ordered.  A        *)
(* createEntry of the seeding may be rejected.                             *)
(***************************************************************************)
StoreOf(kind) == IF kind \in {"getMetadata", "setMetadata"} THEN "metadata" ELSE "entries"

\* the n-th waiting request belongs to call i, which waits at pc, and no
\* earlier request is on its object store
BootAnswered(i, pc, n) ==
    /\ procs[i].pc = pc
    /\ queue[n].proc = i
    /\ \A m \in 1..(n - 1) : StoreOf(queue[m].kind) # StoreOf(queue[n].kind)

Dequeue(n) == SubSeq(queue, 1, n - 1) \o SubSeq(queue, n + 1, Len(queue))

\* the call goes on to its next await
BootAwait(i, n, pc, k, req) ==
    /\ procs' = [procs EXCEPT ![i].pc = pc, ![i].k = k]
    /\ queue' = Dequeue(n) \o <<req>>
    /\ UNCHANGED last

\* the call returns true or rethrows
BootReturn(i, n, res) ==
    /\ procs' = [procs EXCEPT ![i].pc = "done", ![i].res = res]
    /\ queue' = Dequeue(n)
    /\ last' = Call("initialize", <<>>, <<>>, res)

\* await storage.initialize(); storage.getMetadata('initialized') is requested
BootBegin ==
    \E i \in Procs :
        /\ procs[i].pc \in {"idle", "done"}
        /\ calls < MaxBootCalls
        /\ calls' = calls + 1
        /\ db' = TRUE
        /\ procs' = [procs EXCEPT ![i] = [IdleProc EXCEPT !.op = "initialize", !.pc = "flag"]]
        /\ queue' = queue \o <<Request(i, "getMetadata", <<>>, NoRecord)>>
        /\ UNCHANGED <<storage, metadata, cache, heap, initialized, last>>

\* getMetadata has answered: the first createEntry of createDefaultStructure,
\* or getAllEntries of buildCache
BootAfterFlag ==
    \E i \in Procs, n \in 1..Len(queue) :
        /\ BootAnswered(i, "flag", n)
        /\ IF "initialized" \in metadata
           THEN BootAwait(i, n, "loading", 0, Request(i, "getAll", <<>>, NoRecord))
           ELSE BootAwait(i, n, "seeding", 1,
                          Request(i, "add", DefaultStructureCreate[1].path,
                                  DefaultStructureCreate[1]))
        /\ UNCHANGED <<storage, metadata, cache, heap, initialized, db, calls>>

\* a createEntry of the loop has answered: the next one, or setMetadata
BootAfterSeed ==
    \E i \in Procs, n \in 1..Len(queue), f \in 0..1 :
        /\ BootAnswered(i, "seeding", n)
        /\ LET w == StorageCreateEntry(Start(f), queue[n].rec)
               k == procs[i].k
           IN /\ storage' = w.s.storage
              /\ IF ~w.ok THEN BootReturn(i, n, "StorageError")
                 ELSE IF k < Len(DefaultStructureCreate)
                 THEN BootAwait(i, n, "seeding", k + 1,
                                Request(i, "add", DefaultStructureCreate[k + 1].path,
                                        DefaultStructureCreate[k + 1]))
                 ELSE BootAwait(i, n, "flagging", k,
                                Request(i, "setMetadata", <<>>, NoRecord))
        /\ UNCHANGED <<metadata, cache, heap, initialized, db, calls>>

\* setMetadata('initialized', true) has answered
BootAfterFlagSet ==
    \E i \in Procs, n \in 1..Len(queue) :
        /\ BootAnswered(i, "flagging", n)
        /\ metadata' = metadata \cup {"initialized"}
        /\ BootAwait(i, n, "versioning", procs[i].k,
                     Request(i, "setMetadata", <<>>, NoRecord))
        /\ UNCHANGED <<storage, cache, heap, initialized, db, calls>>

\* setMetadata('version', '1.0') has answered
BootAfterVersion ==
    \E i \in Procs, n \in 1..Len(queue) :
        /\ BootAnswered(i, "versioning", n)
        /\ metadata' = metadata \cup {"version"}
        /\ BootAwait(i, n, "loading", procs[i].k, Request(i, "getAll", <<>>, NoRecord))
        /\ UNCHANGED <<storage, cache, heap, initialized, db, calls>>

\* getAllEntries has answered: the cache is rebuilt, this.initialized = true
BootAfterLoad ==
    \E i \in Procs, n \in 1..Len(queue) :
        /\ BootAnswered(i, "loading", n)
        /\ cache' = buildCache(Start(0)).cache
        /\ heap' = Collect(buildCache(Start(0))).heap
        /\ initialized' = TRUE
        /\ BootReturn(i, n, "ok")
        /\ UNCHANGED <<storage, metadata, db, calls>>

NextBoot ==
    \/ BootBegin
    \/ BootAfterFlag
    \/ BootAfterSeed
    \/ BootAfterFlagSet
    \/ BootAfterVersion
    \/ BootAfterLoad

SpecBoot == Init /\ [][NextBoot]_vars

(***************************************************************************)
(* The storage specification: the storage engine called directly, one      *)
(* request at a time, with records of the caller's choice, and search,     *)
(* which reads the storage engine alone.  With Storage.db still null every *)
(* call throws a TypeError.                                                *)
(***************************************************************************)
TempABak == <<"C:", "Windows", "Temp", "a.txt.bak">>
TempAtxt == <<"C:", "Windows", "Temp", "atxt">>
RecycleAUpper == <<"C:", "Recycle Bin", "A.TXT">>

StoreIds == {"file_1", "file_2"}
StorePaths == {TempA, TempABak, TempAtxt, RecycleAUpper}

\* records handed to createEntry / updateEntry
StoreRecords ==
    {sampleFile(id, basename(p), p, IF dirname(p) = Temp THEN "temp" ELSE "recycle_bin",
                "hi", TRUE) : id \in StoreIds, p \in StorePaths}
    \cup {createDir("temp", "Temp", Temp, "windows", <<>>)}

\* '*.txt', 'a*', '*', 'a.txt'
Patterns ==
    {<<"*", ".", "t", "x", "t">>, <<"a", "*">>, <<"*">>, <<"a", ".", "t", "x", "t">>}
\* directories handed to search ('C:\\' is its default)
SearchDirs == {Root, Temp, <<"C:", "WINDOWS", "TEMP">>, RecycleBin}

StoreCall(op, path, path2, st, res, val) ==
    /\ storage' = IF db THEN st ELSE storage
    /\ last' = IF db THEN [Call(op, path, path2, res) EXCEPT !.val = val]
               ELSE Call(op, path, path2, "TypeError")
    /\ UNCHANGED <<metadata, cache, heap, initialized, db, calls, procs, queue>>

\* a request that resolves or rejects: w is what it does to the store
StoreWrite(op, path, w) ==
    StoreCall(op, path, <<>>, w.s.storage, IF w.ok THEN "ok" ELSE "StorageError", <<>>)

\* Storage.initialize: the database is opened
StoreInitialize ==
    /\ db' = TRUE
    /\ last' = Call("open", <<>>, <<>>, "ok")
    /\ UNCHANGED <<storage, metadata, cache, heap, initialized, calls, procs, queue>>

StoreCreateEntry ==
    \E e \in StoreRecords : StoreWrite("createEntry", e.path, StorageCreateEntry(Start(0), e))

StoreUpdateEntry ==
    \E e \in StoreRecords : StoreWrite("updateEntry", e.path, StorageUpdateEntry(Start(0), e))

StoreDeleteEntry ==
    \E id \in StoreIds \cup {"temp"} :
        StoreWrite("deleteEntry", <<>>, StorageDeleteEntry(Start(0), id))

Search ==
    \E pattern \in Patterns, directory \in SearchDirs :
        StoreCall("search", pattern, directory, storage, "ok",
                  search(storage, pattern, directory))

NextStore ==
    \/ StoreInitialize
    \/ StoreCreateEntry
    \/ StoreUpdateEntry
    \/ StoreDeleteEntry
    \/ Search

SpecStore == Init /\ [][NextStore]_vars

(***************************************************************************)
(* The path specification: PathResolver called on path strings of up to    *)
(* MaxParts parts.  A string is given by its parts between separators      *)
(* ('/' or '\\'): '' is <<>>, '\\' is <<"", "">>, 'C:\\' is <<"C:", "">>,    *)
(* '..\\a' is <<"..", "a">>.  No string has the single part "".            *)
(***************************************************************************)
PathParts == {"", ".", "..", "C:", "a"}

PathInputs ==
    {<<>>} \cup (UNION {[1..n -> PathParts] : n \in 1..MaxParts} \ {<<"">>})

PathCall(op, path, path2, val) ==
    /\ last' = [Call(op, path, path2, "ok") EXCEPT !.val = val]
    /\ UNCHANGED <<storage, metadata, cache, heap, initialized, db, calls, procs, queue>>

\* pathResolver.normalize(p)
Normalize == \E p \in PathInputs : PathCall("normalize", p, <<>>, normalize(p))

\* pathResolver.join(pathResolver.dirname(p), pathResolver.basename(p))
SplitJoin(p) ==
    PathCall("join", dirname(p), <<basename(p)>>, join(dirname(p), basename(p)))

DirnameBasenameJoin == \E p \in PathInputs : SplitJoin(p)

NextPath ==
    \/ Normalize
    \/ DirnameBasenameJoin

SpecPath == Init /\ [][NextPath]_vars

(***************************************************************************)
(* The event specification: calls, one at a time, on a coordinator that    *)
(* was given a kernel.  VFS.emit hands the event to this.kernel.emit and   *)
(* has no handler of its own: a kernel whose emit returns ("kernel"), a    *)
(* kernel whose emit throws after it has taken the event ("throws": for    *)
(* one, Kernel.emit reads this.config.eventQueueSize of a Kernel built     *)
(* without a config), or no kernel ("none").  An event is its name and the *)
(* operation it reports.                                                   *)
(***************************************************************************)
Sinks == {"none", "kernel", "throws"}

\* VFS.emit
emit(sink, event) ==
    [events |-> IF sink = "none" THEN <<>> ELSE <<event>>, thrown |-> sink = "throws"]

NotEmitted == [events |-> <<>>, thrown |-> FALSE]

\* try { ...; this.emit(okEvent) } catch (error) { this.emit('fs:error'); throw error }
\* around a body that ended with res
TryCatch(op, okEvent, res, sink) ==
    LET Caught(first, error, second) ==
            [res |-> IF second.thrown THEN "SinkError" ELSE error,
             events |-> first.events \o second.events]
        Tried(first) ==
            IF res = "ok" /\ ~first.thrown THEN [res |-> "ok", events |-> first.events]
            ELSE Caught(first, IF res = "ok" THEN "SinkError" ELSE res,
                        emit(sink, <<"fs:error", op>>))
    IN Tried(IF res = "ok" THEN emit(sink, <<okEvent, op>>) ELSE NotEmitted)

\* the call's effect and what its caller and its kernel see of it
Observed(op, path, s, res, sink, events) ==
    /\ calls < MaxCalls
    /\ calls' = calls + 1
    /\ storage' = s.storage
    /\ cache' = s.cache
    /\ heap' = Collect(s).heap
    /\ last' = [Call(op, path, <<>>, res) EXCEPT !.sink = sink, !.events = events]
    /\ UNCHANGED <<procs, queue>>

\* what the body of an operation does on the coordinator as it is: with
\* Storage.db still null its first storage access throws a TypeError
Body(r) == IF db THEN r ELSE [s |-> Start(0), res |-> "TypeError"]

EventInitializeWith(sink) ==
    LET r == initialize(Start(0), metadata) IN
    /\ Observed("initialize", <<>>, r.s, TryCatch("initialize", "fs:initialized", r.res, sink).res,
                sink, TryCatch("initialize", "fs:initialized", r.res, sink).events)
    /\ metadata' = r.meta
    /\ initialized' = (initialized \/ r.ready)
    /\ db' = TRUE

EventInitialize == \E sink \in Sinks : EventInitializeWith(sink)

EventPaths == {TempA, NewA}

EventCreateFileWith(p, c, sink) ==
    LET r == Body(createFile(Start(0), p, c, generateId(FilePool, Used))) IN
    /\ CanGenerate(FilePool)
    /\ Observed("createFile", normalize(p), r.s,
                TryCatch("createFile", "fs:file:created", r.res, sink).res,
                sink, TryCatch("createFile", "fs:file:created", r.res, sink).events)
    /\ UNCHANGED <<metadata, initialized, db>>

EventCreateFile ==
    \E p \in EventPaths, c \in Contents, sink \in Sinks : EventCreateFileWith(p, c, sink)

\* getInfo has no try/catch and emits nothing
EventGetInfoWith(p, sink) ==
    LET r == Body(getInfo(Start(0), p)) IN
    /\ Observed("getInfo", normalize(p), r.s, r.res, sink, <<>>)
    /\ UNCHANGED <<metadata, initialized, db>>

EventGetInfo == \E p \in EventPaths, sink \in Sinks : EventGetInfoWith(p, sink)

NextEvents ==
    \/ EventInitialize
    \/ EventCreateFile
    \/ EventGetInfo

SpecEvents == Init /\ [][NextEvents]_vars

(***************************************************************************)
(* The specification of overlapping calls on one entry: after              *)
(* initialize(), each of two callers issues one of readFile, writeFile,    *)
(* deleteFile, createFile and deleteDirectory(path, false), taken one      *)
(* storage await at a time as in the specification with calls in flight.   *)
(***************************************************************************)
\* readFile from the type check to the await of storage.updateEntry
readFileFound(s, i, proc, e) ==
    IF e.type # "file" THEN Finished(s, proc, "InvalidType")
    ELSE Out(s, [proc EXCEPT !.pc = "storing", !.entry = FileFromJSON(e), !.refs = {e.ref}],
             <<Request(i, "put", proc.path, ToRecord(s.heap, FileFromJSON(e)))>>)

\* writeFile from the type check to the await of storage.updateEntry
writeFileFound(s0, i, proc, e) ==
    LET Sent(s, file) ==
            Out(s, [proc EXCEPT !.pc = "storing", !.entry = file, !.refs = {file.ref}],
                <<Request(i, "put", proc.path, ToRecord(s.heap, file))>>)
        SetContent(file) ==
            Sent([s0 EXCEPT !.heap = setContentHeap(s0.heap, file.ref)], file)
    IN IF e.type # "file" THEN Finished(s0, proc, "InvalidType")
       ELSE SetContent([FileFromJSON(e) EXCEPT !.content = proc.content,
                                               !.size = calculateSize(proc.content)])

\* "Delete file" / "Delete directory": the await of storage.deleteEntry
deleteRemove(s, i, proc) ==
    Out(s, [proc EXCEPT !.pc = "removing"],
        <<Request(i, "delete", proc.path, [NoRecord EXCEPT !.id = proc.entry.id])>>)

\* "Remove from parent directory" up to the await of storage.updateEntry
deleteUnlink(s0, i, proc, parentEntry) ==
    LET Sent(s, parent) ==
            Out(s, [proc EXCEPT !.pc = "unlinking", !.parent = parent,
                                !.refs = proc.refs \cup {parent.ref}],
                <<Request(i, "put", parent.path, ToRecord(s.heap, parent))>>)
        Removed(parent) ==
            Sent([s0 EXCEPT !.heap = removeChild(s0.heap, parent.ref, proc.entry.id)], parent)
    IN Removed(DirectoryFromJSON(parentEntry))

\* deleteFile / deleteDirectory from `await this.getEntry(parentPath)`
deleteParent(s, i, proc) ==
    IF dirname(proc.path) \in DOMAIN s.cache
    THEN deleteUnlink(s, i, proc, s.cache[dirname(proc.path)])
    ELSE Out(s, [proc EXCEPT !.pc = "unlinkParent"],
             <<Request(i, "get", dirname(proc.path), NoRecord)>>)

\* deleteFile / deleteDirectory(path, false) from the type check on
deleteFound(s, i, proc, e) ==
    IF e.type # (IF proc.op = "deleteFile" THEN "file" ELSE "directory")
    THEN Finished(s, proc, "InvalidType")
    ELSE IF proc.op = "deleteDirectory" /\ hasChildren(s.heap, e.ref)
    THEN Finished(s, proc, "DirectoryNotEmpty")
    ELSE deleteParent(s, i, [proc EXCEPT !.entry = e, !.refs = {e.ref}])

\* what readFile, writeFile, deleteFile and deleteDirectory do with the entry
\* `await this.getEntry(path)` gave them
entryFound(s, i, proc, e) ==
    IF proc.op = "readFile" THEN readFileFound(s, i, proc, e)
    ELSE IF proc.op = "writeFile" THEN writeFileFound(s, i, proc, e)
    ELSE deleteFound(s, i, proc, e)

\* writeFile on a path that names nothing: `return await this.createFile(...)`
entryMissing(s, i, proc) ==
    IF proc.op = "writeFile"
    THEN [createFileBegin(s, i, proc.path, proc.content) EXCEPT !.proc.op = "writeFile"]
    ELSE Finished(s, proc, "NotFound")

\* readFile, writeFile, deleteFile, deleteDirectory up to the first storage request
entryBegin(s, i, op, path0, content) ==
    LET Begin(proc) ==
            IF proc.path \in DOMAIN s.cache THEN entryFound(s, i, proc, s.cache[proc.path])
            ELSE Out(s, [proc EXCEPT !.pc = "entry"],
                     <<Request(i, "get", proc.path, NoRecord)>>)
    IN Begin([IdleProc EXCEPT !.op = op, !.path = normalize(path0), !.content = content])

\* `await this.getEntry(path)` has answered from storage
entryAfterLookup(s, i, proc) ==
    LET Got(ge) ==
            IF ~ge.found THEN entryMissing(ge.s, i, proc)
            ELSE entryFound(ge.s, i, proc, ge.e)
    IN Got(getEntryAnswered(s, proc.path))

\* storage.updateEntry(file.toJSON()) of readFile / writeFile has answered
entryAfterStore(s0, i, proc, req) ==
    LET Updated(w) ==
            IF ~w.ok THEN Finished(w.s, proc, "StorageError")
            ELSE Finished(CacheSet(w.s, proc.path, proc.entry), proc, "ok")
    IN Updated(StorageUpdateEntry(s0, req.rec))

\* `await this.getEntry(parentPath)` of a delete has answered from storage
deleteAfterParent(s, i, proc) ==
    LET Got(pe) ==
            IF ~pe.found THEN deleteRemove(pe.s, i, proc)
            ELSE deleteUnlink(pe.s, i, proc, pe.e)
    IN Got(getEntryAnswered(s, dirname(proc.path)))

\* storage.updateEntry(parent) of a delete has answered: cache.set, deleteEntry
deleteAfterUnlink(s0, i, proc, req) ==
    LET Updated(w) ==
            IF ~w.ok THEN Finished(w.s, proc, "StorageError")
            ELSE deleteRemove(CacheSet(w.s, dirname(proc.path), proc.parent), i, proc)
    IN Updated(StorageUpdateEntry(s0, req.rec))

\* storage.deleteEntry has answered: cache.delete
deleteAfterRemove(s0, i, proc, req) ==
    LET Deleted(w) ==
            IF ~w.ok THEN Finished(w.s, proc, "StorageError")
            ELSE Finished(CacheDelete(w.s, proc.path), proc, "ok")
    IN Deleted(StorageDeleteEntry(s0, req.rec.id))

\* the file and the empty directory the overlapping calls are about
OverlapFilePaths == {SystemIni, TempA}
OverlapDirPaths == {Temp}
OverlapCreatePaths == {TempA}
OverlapNewDirPaths == {NewFolder}

Idle(i) == initialized /\ procs[i].pc = "idle"

\* createFile('C:\\Windows\\Temp\\a.txt', 'abc') issued beforehand and run to completion
PreludeCreateFile ==
    /\ NoneInFlight /\ calls < MaxPrelude /\ CanGenerate(FilePool)
    /\ \E p \in OverlapCreatePaths :
           Return("createFile", normalize(p), <<>>,
                  createFile(Start(0), p, "abc", generateId(FilePool, Used)))

ReadFileBegin ==
    \E i \in Procs, p \in OverlapFilePaths :
        Idle(i) /\ Commit(i, queue, entryBegin(Start(0), i, "readFile", p, ""))

WriteFileBegin ==
    \E i \in Procs, p \in OverlapFilePaths, c \in Contents :
        Idle(i) /\ Commit(i, queue, entryBegin(Start(0), i, "writeFile", p, c))

DeleteFileBegin ==
    \E i \in Procs, p \in OverlapFilePaths :
        Idle(i) /\ Commit(i, queue, entryBegin(Start(0), i, "deleteFile", p, ""))

DeleteEmptyDirectoryBegin ==
    \E i \in Procs, p \in OverlapDirPaths :
        Idle(i) /\ Commit(i, queue, entryBegin(Start(0), i, "deleteDirectory", p, ""))

OverlapCreateFileBegin ==
    \E i \in Procs, p \in OverlapCreatePaths, c \in Contents :
        Idle(i) /\ Commit(i, queue, createFileBegin(Start(0), i, p, c))

\* createDirectory up to its first storage request: createFile's steps
OverlapCreateDirectoryBegin ==
    \E i \in Procs, p \in OverlapNewDirPaths :
        /\ Idle(i)
        /\ Commit(i, queue,
                  [createFileBegin(Start(0), i, p, "") EXCEPT !.proc.op = "createDirectory"])

EntryAfterLookup ==
    \E i \in Procs :
        /\ Answered(i, "entry")
        /\ Commit(i, Tail(queue), entryAfterLookup(Start(0), i, procs[i]))

EntryAfterStore ==
    \E i \in Procs :
        /\ Answered(i, "storing")
        /\ Commit(i, Tail(queue), entryAfterStore(Start(0), i, procs[i], Head(queue)))

DeleteAfterParent ==
    \E i \in Procs :
        /\ Answered(i, "unlinkParent")
        /\ Commit(i, Tail(queue), deleteAfterParent(Start(0), i, procs[i]))

DeleteAfterUnlink ==
    \E i \in Procs :
        /\ Answered(i, "unlinking")
        /\ Commit(i, Tail(queue), deleteAfterUnlink(Start(0), i, procs[i], Head(queue)))

DeleteAfterRemove ==
    \E i \in Procs :
        /\ Answered(i, "removing")
        /\ Commit(i, Tail(queue), deleteAfterRemove(Start(0), i, procs[i], Head(queue)))

NextOverlap ==
    \/ PreludeInitialize
    \/ PreludeCreateFile
    \/ PreludeRename
    \/ ReadFileBegin
    \/ WriteFileBegin
    \/ DeleteFileBegin
    \/ DeleteEmptyDirectoryBegin
    \/ OverlapCreateFileBegin
    \/ OverlapCreateDirectoryBegin
    \/ EntryAfterLookup
    \/ EntryAfterStore
    \/ DeleteAfterParent
    \/ DeleteAfterUnlink
    \/ DeleteAfterRemove
    \/ CreateFileAfterExists
    \/ CreateFileAfterParent
    \/ CreateFileAfterInsert
    \/ CreateFileAfterLink

SpecOverlap == Init /\ [][NextOverlap]_vars

(***************************************************************************)
(* The tree specification: initialize(), then createFile, createDirectory, *)
(* deleteFile and deleteDirectory issued one at a time, each run to        *)
(* completion, no storage failure injected.  The callers may delete the    *)
(* three sample files, after which every children list of the tree agrees  *)
(* with the parentId's.                                                    *)
(***************************************************************************)
WelcomeTxt == Desktop \o <<"Welcome.txt">>
ReadmeTxt == UserPath \o <<"My Documents", "README.txt">>
NewSub == <<"C:", "New Folder", "Sub">>

TreeFilePaths == {WelcomeTxt, ReadmeTxt, SystemIni, NewA}
TreeDirPaths == {NewFolder, NewSub}
TreeDeletePaths == {NewFolder, Windows, Root}

TreeReturn(op, path, r) ==
    /\ initialized
    /\ calls < MaxTreeCalls
    /\ calls' = calls + 1
    /\ storage' = r.s.storage
    /\ cache' = r.s.cache
    /\ heap' = Collect(r.s).heap
    /\ last' = Call(op, path, <<>>, r.res)
    /\ UNCHANGED <<metadata, initialized, db, procs, queue>>

TreeInitialize == InitializeF(0)

TreeCreateFile ==
    \E p \in TreeFilePaths, c \in Contents :
        /\ CanGenerate(FilePool)
        /\ TreeReturn("createFile", normalize(p),
                      createFile(Start(0), p, c, generateId(FilePool, Used)))

TreeCreateDirectory ==
    \E p \in TreeDirPaths :
        /\ CanGenerate(DirPool)
        /\ TreeReturn("createDirectory", normalize(p),
                      createDirectory(Start(0), p, generateId(DirPool, Used)))

TreeDeleteFile ==
    \E p \in TreeFilePaths : TreeReturn("deleteFile", normalize(p), deleteFile(Start(0), p))

TreeDeleteDirectory ==
    \E p \in TreeDeletePaths, recursive \in BOOLEAN :
        TreeReturn(IF recursive THEN "deleteDirectoryRecursive" ELSE "deleteDirectory",
                   normalize(p),
                   deleteDirectory(Start(0), p, recursive, Cardinality(DOMAIN storage) + 1))

NextTree ==
    \/ TreeInitialize
    \/ TreeCreateFile
    \/ TreeCreateDirectory
    \/ TreeDeleteFile
    \/ TreeDeleteDirectory

SpecTree == Init /\ [][NextTree]_vars

(***************************************************************************)
(* What the properties read.                                               *)
(***************************************************************************)
\* the operations of the coordinator that read or change entries
EntryOps ==
    {"createFile", "createDirectory", "writeFile", "readFile", "listDirectory",
     "deleteFile", "deleteDirectory", "deleteDirectoryRecursive", "rename",
     "copyFile", "moveFile"}

Succeeded == last.op \in EntryOps /\ last.res = "ok"

LiveDirs(st) == {d \in DOMAIN st : st[d].type = "directory"}

ChildIds(st, d) == SeqRange(st[d].children)

ChildrenByParentId(st, d) == {i \in DOMAIN st : st[i].parentId = d}

\* the pairs (directory, id) on which children and parentId disagree
LinkDefects(st) ==
    UNION {{<<d, c>> : c \in (ChildIds(st, d) \ ChildrenByParentId(st, d))
                            \cup (ChildrenByParentId(st, d) \ ChildIds(st, d))}
           : d \in LiveDirs(st)}

\* C1: after every successful operation every directory's children are exactly
\* the ids of the live entries whose parentId is that directory's id
C1_ChildrenMatchParentId == Succeeded => LinkDefects(storage) = {}

\* C1, the part that does not rest on the tree initialize() seeds: a successful
\* operation adds no disagreement between a children list and the parentId's
C1_NoNewLinkDefect ==
    [][(last'.op \in EntryOps /\ last'.res = "ok")
         => LinkDefects(storage') \subseteq LinkDefects(storage)]_vars

\* C2: after every successful operation every live entry other than the root
\* has a parentId that names a live directory
C2_ParentIsLiveDirectory ==
    Succeeded =>
        \A i \in DOMAIN storage :
            storage[i].parentId # NullId => storage[i].parentId \in LiveDirs(storage)

\* C3: after every successful operation the path of every non-root live entry
\* is its parent's path followed by the separator and its own name
C3_PrefixConsistency ==
    Succeeded =>
        \A i \in DOMAIN storage :
            storage[i].parentId \in DOMAIN storage =>
                storage[i].path = Append(storage[storage[i].parentId].path, storage[i].name)

UniquePaths(st) == \A i, j \in DOMAIN st : st[i].path = st[j].path => i = j

\* a create on a path that names a live entry fails with AlreadyExists and
\* leaves storage as it was
CreateOnLivePath ==
    (last'.op \in {"createFile", "createDirectory"} /\ StorageHasPath(storage, last'.path))
        => (last'.res = "AlreadyExists" /\ storage' = storage)

\* C4: no two live entries of storage have the same path; a createFile or
\* createDirectory on a path that names a live entry fails with AlreadyExists
\* and leaves storage unchanged; a rename onto an occupied path yields no
\* second entry with that path
C4_PathUnique == [](UniquePaths(storage)) /\ [][CreateOnLivePath]_vars

\* reached: a second create on a path an earlier create made is rejected with
\* AlreadyExists, after a rename onto an occupied path was refused (the cached
\* entry still carries the path it asked for), one entry holding the path
C4_Witness ==
    /\ last.op \in {"createFile", "createDirectory"}
    /\ last.res = "AlreadyExists"
    /\ \E i \in FileIds \cup DirIds : i \in DOMAIN storage /\ storage[i].path = last.path
    /\ Cardinality({i \in DOMAIN storage : storage[i].path = last.path}) = 1
    /\ \E p \in DOMAIN cache : cache[p].path # p /\ StorageHasPath(storage, cache[p].path)

Roots(st) == {i \in DOMAIN st : st[i].parentId = NullId}

\* C5: after every successful operation exactly one live entry has parentId
\* null, it is a directory and its path is C:\
C5_OneRoot ==
    Succeeded =>
        /\ Cardinality(Roots(storage)) = 1
        /\ \A i \in Roots(storage) : storage[i].type = "directory" /\ storage[i].path = Root

\* the paths the last operation touched: its target, the new path of a rename
\* or the destination of a copy, and their parents
Touched ==
    {p \in {last.path, last.path2, dirname(last.path), dirname(last.path2)} :
        p # <<>> /\ p # <<".">>}

\* getInfo(path) returns what storage holds for path, None if it holds nothing
InfoAgrees(path) ==
    LET Got(r) ==
            IF StorageHasPath(storage, path)
            THEN r.res = "ok"
                 /\ ToRecord(r.s.heap, r.val) = StorageGetEntryByPath(storage, path)
            ELSE r.res = "None"
    IN Got(getInfo(Start(0), path))

\* C7: after a successful operation getInfo on every path it touched returns
\* what storage holds for that path, and None where storage holds nothing
C7_InfoMatchesStorage == Succeeded => \A p \in Touched : InfoAgrees(p)

\* what a lookup of each cached path returns
CacheView(ca, hp) == [p \in DOMAIN ca |-> ToRecord(hp, ca[p])]

\* C9: an operation that fails because storage rejects a write leaves the
\* cache exactly as it was before the call
C9_FailureKeepsCache ==
    [][last'.res = "StorageError" => CacheView(cache', heap') = CacheView(cache, heap)]_vars

\* C8: an operation that fails at a storage write in the middle of a mutation
\* leaves storage with no entry its parent's children omit and no children
\* list naming a removed entry, beyond those there were before the call
C8_FailureKeepsLinkage ==
    [][(last'.op \in EntryOps /\ last'.res = "StorageError")
         => LinkDefects(storage') \subseteq LinkDefects(storage)]_vars

\* two createFile calls under one parent directory have both returned
BothCreatesReturned ==
    /\ \A i \in Procs : procs[i].op = "createFile" /\ procs[i].pc = "done"
    /\ dirname(procs[1].path) = dirname(procs[2].path)
    /\ procs[1].path # procs[2].path
    /\ StorageHasPath(storage, dirname(procs[1].path))
    /\ StorageGetEntryByPath(storage, dirname(procs[1].path)).type = "directory"

\* the parent's children hold id both in storage and in what the cache returns
HeldByParent(parentPath, id) ==
    /\ id \in SeqRange(StorageGetEntryByPath(storage, parentPath).children)
    /\ parentPath \in DOMAIN cache
    /\ id \in SeqRange(heap[cache[parentPath].ref].children)

\* C6: two createFile calls with different names under the same existing
\* directory, in flight together, both succeed, and once both have returned
\* the parent's children in storage and in the cache contain both new ids
C6_BothSucceedAndLinked ==
    BothCreatesReturned =>
        \A i \in Procs :
            /\ procs[i].res = "ok"
            /\ HeldByParent(dirname(procs[i].path), procs[i].entry.id)

\* C6, the lost update alone: when two createFile calls under the same
\* directory, in flight together, have both returned successfully, the
\* parent's children in storage and in the cache contain both new ids
C6_NoLostChild ==
    (BothCreatesReturned /\ \A i \in Procs : procs[i].res = "ok") =>
        \A i \in Procs : HeldByParent(dirname(procs[i].path), procs[i].entry.id)

\* the fields a cache lookup of an entry shows
Shown == {"name", "path", "children", "archive"}

FieldOf(rec, f) ==
    CASE f = "name" -> <<rec.name>>
      [] f = "path" -> rec.path
      [] f = "children" -> rec.children
      [] f = "archive" -> <<rec.archive>>

\* a put of rec waits in the queue; the cache shows, for some field, the value
\* of rec where storage still holds another
ShowsUnconfirmed(rec) ==
    /\ rec.id \in DOMAIN storage
    /\ \E p \in DOMAIN cache, f \in Shown :
           /\ cache[p].id = rec.id
           /\ FieldOf(rec, f) # FieldOf(storage[rec.id], f)
           /\ FieldOf(ToRecord(heap, cache[p]), f) = FieldOf(rec, f)

\* C10: while the storage write of a mutation is still unanswered, no cache
\* lookup returns the name, path, children or attributes the write will store
C10_CacheAfterStorage ==
    \A k \in 1..Len(queue) : queue[k].kind = "put" => ~ShowsUnconfirmed(queue[k].rec)

(***************************************************************************)
(* C11: every operation other than initialize() that is invoked while the  *)
(* coordinator is not ready (initialize() has not completed, or reset()    *)
(* has run) fails with NotInitialized and changes neither storage nor      *)
(* cache.                                                                  *)
(***************************************************************************)
InvokedUnready ==
    ~initialized /\ calls' = calls + 1 /\ last'.op \in EntryOps \cup {"getInfo"}

C11_UnreadyCallRejected ==
    [][InvokedUnready =>
          /\ last'.res = "NotInitialized"
          /\ storage' = storage
          /\ cache' = cache]_vars

(***************************************************************************)
(* C12: across the initialize() calls on one storage, one after the other  *)
(* or overlapping, the default tree is seeded at most once: a call gets    *)
(* past the first createEntry of the seeding only on an empty store,       *)
(* entries are created only while the `initialized` flag is absent, the    *)
(* flag is set only when all default entries are stored, and a call that   *)
(* finds the flag set creates no entries.                                  *)
(***************************************************************************)
DefaultIds == {DefaultStructureCreate[k].id : k \in 1..Len(DefaultStructureCreate)}

Acts(i) == procs'[i] # procs[i]

C12_SeededAtMostOnce ==
    [][\A i \in Procs :
          /\ (procs[i].pc = "seeding" /\ procs[i].k = 1 /\ procs'[i].k = 2)
                => storage = EmptyMap
          /\ storage' # storage => "initialized" \notin metadata
          /\ ("initialized" \notin metadata /\ "initialized" \in metadata')
                => DefaultIds \subseteq DOMAIN storage'
          /\ (Acts(i) /\ procs[i].pc \in {"flag", "loading"} /\ procs[i].k = 0
                      /\ "initialized" \in metadata)
                => storage' = storage /\ procs'[i].pc \in {"loading", "done"}]_vars

\* two calls have returned: one seeded all default entries, the other found
\* the flag absent as well and had its first createEntry rejected
C12_Witness ==
    \E i, j \in Procs :
        /\ procs[i].pc = "done" /\ procs[i].res = "ok"
        /\ procs[i].k = Len(DefaultStructureCreate)
        /\ procs[j].pc = "done" /\ procs[j].res = "StorageError" /\ procs[j].k = 1
        /\ DOMAIN storage = DefaultIds
        /\ "initialized" \in metadata

(***************************************************************************)
(* C13: for every path p whose parent is a live Directory and that names   *)
(* no entry, and every content c: after createFile(p, c), readFile(p)      *)
(* returns c and getInfo(p) reports a size equal to the byte length of c   *)
(* (before and after the read).  The contents are ASCII text: their byte   *)
(* length is their length.                                                 *)
(***************************************************************************)
ParentIsLiveDirectory(p) ==
    /\ StorageHasPath(storage, dirname(p))
    /\ StorageGetEntryByPath(storage, dirname(p)).type = "directory"

\* the step is createFile(p, c) run to completion on the state before it
CreatesFile(p, c) ==
    /\ CanGenerate(FilePool)
    /\ Return("createFile", normalize(p), <<>>,
              createFile(Start(0), p, c, generateId(FilePool, Used)))

AfterStep == State(storage', cache', heap', 0, {})

ReadsBack(rd, before, p, c) ==
    /\ rd.res = "ok" /\ rd.val = c
    /\ before.val.size = Len(c)
    /\ getInfo(rd.s, p).val.size = Len(c)

Creates == initialized /\ calls' = calls + 1 /\ last'.op \in {"createFile", "createDirectory"}

ParentIsFile(p) ==
    /\ StorageHasPath(storage, dirname(p))
    /\ StorageGetEntryByPath(storage, dirname(p)).type = "file"

C14_ParentChecked ==
    [][Creates =>
          /\ ~StorageHasPath(storage, dirname(last'.path))
                => last'.res = "NotFound" /\ storage' = storage /\ cache' = cache
          /\ ParentIsFile(last'.path)
                => last'.res = "InvalidType" /\ storage' = storage /\ cache' = cache]_vars

(***************************************************************************)
(* C15: on a ready coordinator, readFile, writeFile and deleteFile on a    *)
(* path that names a Directory, and listDirectory and deleteDirectory on   *)
(* a path that names a File, fail with InvalidType; readFile, deleteFile,  *)
(* listDirectory and deleteDirectory on a path that names no entry fail    *)
(* with NotFound; storage and cache are unchanged in every case.  What a   *)
(* path names is read from storage, the source of truth.                   *)
(***************************************************************************)
Calls(ops) == initialized /\ calls' = calls + 1 /\ last'.op \in ops

TypeAt(p) ==
    IF StorageHasPath(storage, p) THEN StorageGetEntryByPath(storage, p).type ELSE "none"

Refused(res) == last'.res = res /\ storage' = storage /\ cache' = cache

FileOnly == {"readFile", "writeFile", "deleteFile"}
DirectoryOnly == {"listDirectory", "deleteDirectory", "deleteDirectoryRecursive"}

C15_WrongTypeOrMissing ==
    [][/\ Calls(FileOnly) /\ TypeAt(last'.path) = "directory" => Refused("InvalidType")
       /\ Calls(DirectoryOnly) /\ TypeAt(last'.path) = "file" => Refused("InvalidType")
       /\ Calls((FileOnly \cup DirectoryOnly) \ {"writeFile"}) /\ TypeAt(last'.path) = "none"
             => Refused("NotFound")]_vars

(***************************************************************************)
(* C16: readFile(p) on an existing File returns its content even when      *)
(* storage rejects the write of the accessed timestamp: that failure is    *)
(* not raised.                                                             *)
(***************************************************************************)
C16_ReadSurvivesTouchFailure ==
    [][(/\ Calls({"readFile"})
        /\ TypeAt(last'.path) = "file"
        /\ last'.path \in DOMAIN cache /\ cache[last'.path].type = "file")
       => last'.res = "ok"]_vars

(***************************************************************************)
(* C17: a writeFile(p, c) that succeeds on an existing File replaces its   *)
(* content, sets its size to the byte length of c and its archive          *)
(* attribute to true, and leaves its id, name, path, parentId and every    *)
(* other entry unchanged; a writeFile(p, c) on a path that names no entry  *)
(* has exactly the effect and the result of createFile(p, c).              *)
(* (permissions are not part of the model's records)                       *)
(***************************************************************************)
Rewritten(old, c) ==
    /\ DOMAIN storage' = DOMAIN storage
    /\ storage'[old.id] = [old EXCEPT !.content = c, !.size = Len(c), !.archive = TRUE]
    /\ \A j \in DOMAIN storage \ {old.id} : storage'[j] = storage[j]

SameAs(r) ==
    /\ last'.res = r.res
    /\ storage' = r.s.storage
    /\ cache' = r.s.cache

C17_WriteFrame ==
    [][Calls({"writeFile"}) =>
          /\ (TypeAt(last'.path) = "file" /\ last'.res = "ok")
                => \E c \in Contents :
                       Rewritten(StorageGetEntryByPath(storage, last'.path), c)
          /\ (TypeAt(last'.path) = "none" /\ CanGenerate(FilePool))
                => \E c \in Contents, k \in FaultAt :
                       SameAs(createFile(Start(k), last'.path, c,
                                         generateId(FilePool, Used)))]_vars

(***************************************************************************)
(* C18: deleteDirectory(path, false) on a Directory that has at least one  *)
(* child (a live entry whose parentId is the directory's id) fails with    *)
(* DirectoryNotEmpty and removes nothing.                                  *)
(***************************************************************************)
HasLiveChild(p) ==
    /\ TypeAt(p) = "directory"
    /\ \E j \in DOMAIN storage :
           storage[j].parentId = StorageGetEntryByPath(storage, p).id

C18_NonEmptyRefused ==
    [][Calls({"deleteDirectory"}) /\ HasLiveChild(last'.path)
          => last'.res = "DirectoryNotEmpty" /\ storage' = storage]_vars

(***************************************************************************)
(* C19: after a successful deleteDirectory(path, true) the directory and   *)
(* every descendant (by parentId) are gone from storage and from the       *)
(* cache, no children list names the directory, and no entry is left       *)
(* whose parentId chain fails to reach the root that did reach it before.  *)
(***************************************************************************)
RECURSIVE Below(_, _)
\* ids and every record of st whose parentId chain leads into ids
Below(st, ids) ==
    LET more == ids \cup {j \in DOMAIN st : st[j].parentId \in ids}
    IN IF more = ids THEN ids ELSE Below(st, more)

Orphans(st) == DOMAIN st \ Below(st, {j \in DOMAIN st : st[j].parentId = NullId})

SubtreeGone(gone, d) ==
    /\ gone \cap DOMAIN storage' = {}
    /\ \A q \in DOMAIN cache' : cache'[q].id \notin gone
    /\ \A j \in DOMAIN storage' : d \notin SeqRange(storage'[j].children)
    /\ Orphans(storage') \subseteq Orphans(storage)

DeletedId == StorageGetEntryByPath(storage, last'.path).id

C19_RecursiveDeleteComplete ==
    [][(/\ Calls({"deleteDirectoryRecursive"})
        /\ last'.res = "ok"
        /\ TypeAt(last'.path) = "directory")
       => SubtreeGone(Below(storage, {DeletedId}), DeletedId)]_vars

(***************************************************************************)
(* C20: a deleteDirectory(path, true) that is invoked while a rename whose *)
(* source or destination lies in the subtree of path is in flight refuses  *)
(* to start: it fails with Busy or Conflict and deletes nothing.           *)
(***************************************************************************)
IsUnder(q, p) == Len(q) > Len(p) /\ SubSeq(q, 1, Len(p)) = p

RenameInFlightUnder(p) ==
    /\ procs[2].op = "rename" /\ procs[2].pc \notin {"idle", "done"}
    /\ IsUnder(procs[2].path, p) \/ IsUnder(procs[2].path2, p)

DeleteInvoked ==
    /\ procs[1].pc \in {"idle", "done"}
    /\ procs'[1].op = "deleteDirectoryRecursive" /\ procs'[1].pc # procs[1].pc

C20_DeleteRefusedWhileRenaming ==
    [][DeleteInvoked /\ RenameInFlightUnder(procs'[1].path)
          => /\ procs'[1].pc = "done"
             /\ procs'[1].res \in {"Busy", "Conflict"}
             /\ storage' = storage /\ queue' = queue]_vars

(***************************************************************************)
(* C21: after a successful rename(oldPath, newPath) of a File within one   *)
(* directory, exists(oldPath) is false, exists(newPath) is true, and the   *)
(* entry at newPath has the id, the content and the parentId of the entry  *)
(* that was at oldPath.  exists and the entry at newPath are what the      *)
(* coordinator answers after the call, cache first.                        *)
(***************************************************************************)
RenamesFileInPlace ==
    /\ Calls({"rename"}) /\ last'.res = "ok"
    /\ TypeAt(last'.path) = "file"
    /\ dirname(last'.path) = dirname(last'.path2)

MovedTo(old, new) ==
    /\ new.found
    /\ new.e.id = old.id /\ new.e.content = old.content /\ new.e.parentId = old.parentId

Rebased(q, a, b) == b \o SubSeq(q, Len(a) + 1, Len(q))

FollowsRename(j, a, b) ==
    /\ j \in DOMAIN storage'
    /\ storage'[j].path = Rebased(storage[j].path, a, b)
    /\ ~getEntry(AfterStep, storage[j].path).found
    /\ getEntry(AfterStep, Rebased(storage[j].path, a, b)).found
    /\ getEntry(AfterStep, Rebased(storage[j].path, a, b)).e.id = j

C22_DescendantsFollow ==
    [][(Calls({"rename"}) /\ last'.res = "ok" /\ TypeAt(last'.path) = "directory")
          => \A j \in DOMAIN storage :
                 IsUnder(storage[j].path, last'.path)
                     => FollowsRename(j, last'.path, last'.path2)]_vars

(***************************************************************************)
(* C23: a successful copyFile(src, dest) creates at dest a new File with   *)
(* an id different from src's, with src's content and with the archive     *)
(* attribute set, linked into the children of dest's parent; src's         *)
(* content, path and id are unchanged; if dest already names an entry,     *)
(* copyFile fails and that entry is unchanged.                             *)
(* (mimeType, permissions and the attributes other than archive are not    *)
(* part of the model's records)                                            *)
(***************************************************************************)
RecordAt(st, p) == StorageGetEntryByPath(st, p)

\* dest's parent is the directory dest.parentId names
CopyOf(src, dest) ==
    /\ dest.id # src.id /\ dest.id \notin DOMAIN storage
    /\ dest.type = "file" /\ dest.content = src.content /\ dest.archive
    /\ dest.parentId \in LiveDirs(storage')
    /\ dest.id \in ChildIds(storage', dest.parentId)

SourceKept(src) ==
    /\ src.id \in DOMAIN storage'
    /\ storage'[src.id].path = src.path
    /\ storage'[src.id].content = src.content

C23_CopyFile ==
    [][Calls({"copyFile"}) =>
          /\ (last'.res = "ok" /\ TypeAt(last'.path) = "file")
                => /\ StorageHasPath(storage', last'.path2)
                   /\ CopyOf(RecordAt(storage, last'.path), RecordAt(storage', last'.path2))
                   /\ SourceKept(RecordAt(storage, last'.path))
          /\ TypeAt(last'.path2) # "none"
                => /\ last'.res # "ok"
                   /\ RecordAt(storage, last'.path2).id \in DOMAIN storage'
                   /\ storage'[RecordAt(storage, last'.path2).id] = RecordAt(storage, last'.path2)]_vars

(***************************************************************************)
(* C24: moveFile(src, dest) is atomic from the caller's view: when it      *)
(* succeeds, src names no entry and dest holds src's former content; when  *)
(* it fails at any step, the deletion of the source after the copy was     *)
(* persisted included, src still exists with its content and no new entry  *)
(* exists at dest.                                                         *)
(***************************************************************************)
C24_MoveAtomic ==
    [][(Calls({"moveFile"}) /\ TypeAt(last'.path) = "file") =>
          /\ last'.res = "ok"
                => /\ ~StorageHasPath(storage', last'.path)
                   /\ StorageHasPath(storage', last'.path2)
                   /\ RecordAt(storage', last'.path2).content
                         = RecordAt(storage, last'.path).content
          /\ last'.res # "ok"
                => /\ StorageHasPath(storage', last'.path)
                   /\ RecordAt(storage', last'.path).content
                         = RecordAt(storage, last'.path).content
                   /\ ~StorageHasPath(storage, last'.path2)
                         => ~StorageHasPath(storage', last'.path2)]_vars

(***************************************************************************)
(* C25: search(pattern, directory) returns exactly the live entries whose  *)
(* whole name matches the glob pattern case-insensitively ('*' standing    *)
(* for any run of characters, every other character literal) and whose     *)
(* path is equal to or under directory; no entry whose name merely         *)
(* contains a match, and no entry outside directory, is returned.          *)
(***************************************************************************)
\* the whole of str matches the glob
RECURSIVE GlobMatch(_, _)
GlobMatch(glob, str) ==
    IF glob = <<>> THEN str = <<>>
    ELSE IF Head(glob) = "*"
         THEN \E k \in 0..Len(str) : GlobMatch(Tail(glob), SubSeq(str, k + 1, Len(str)))
         ELSE /\ str # <<>>
              /\ toLowerCase(Head(glob)) = toLowerCase(Head(str))
              /\ GlobMatch(Tail(glob), Tail(str))

WithinDirectory(path, directory) ==
    LET p == LowerParts(path)
        d == LowerParts(normalize(directory))
    IN Len(p) >= Len(d) /\ SubSeq(p, 1, Len(d)) = d

Expected(pattern, directory) ==
    {i \in DOMAIN storage : /\ GlobMatch(pattern, Chars(storage[i].name))
                            /\ WithinDirectory(storage[i].path, directory)}

C25_SearchExact ==
    (last.op = "search" /\ last.res = "ok")
        => SeqRange(last.val) = Expected(last.path, last.path2)

(***************************************************************************)
(* C28: Storage.updateEntry(entry) with an id that is not present in the   *)
(* entries store fails with NotFound and inserts nothing.                  *)
(***************************************************************************)
UpdatesAbsent(e) ==
    /\ db /\ e.id \notin DOMAIN storage
    /\ StoreWrite("updateEntry", e.path, StorageUpdateEntry(Start(0), e))

C28_UpdateNeverInserts ==
    [][\A e \in StoreRecords :
          UpdatesAbsent(e) => last'.res = "NotFound" /\ storage' = storage]_vars

(***************************************************************************)
(* C27: the coordinator compares paths case-insensitively: no two live     *)
(* entries have paths that are equal under PathResolver.equals, and a      *)
(* createFile or createDirectory on a path that differs only in letter     *)
(* case from the path of a live entry fails with AlreadyExists.            *)
(***************************************************************************)
NoCaseTwins(st) == \A i, j \in DOMAIN st : equals(st[i].path, st[j].path) => i = j

CreateOnCaseTwin ==
    (Creates /\ \E i \in DOMAIN storage : equals(storage[i].path, last'.path))
        => last'.res = "AlreadyExists"

C27_CaseInsensitivePaths == [](NoCaseTwins(storage)) /\ [][CreateOnCaseTwin]_vars

(***************************************************************************)
(* C29: for every input string p, the empty string and the strings made    *)
(* only of separators, '.' and '..' included, normalize(p) is non-empty    *)
(* and normalize(normalize(p)) equals normalize(p); the empty input yields *)
(* the default drive root C:\\.                                            *)
(***************************************************************************)
\* the parts of the string normalize returned: a lone drive carries its
\* trailing separator
Reparse(p) == IF Len(p) = 1 /\ IsDrive(p[1]) THEN <<p[1], "">> ELSE p

C29_NormalizeIdempotent ==
    last.op = "normalize" =>
        /\ last.val # <<>>
        /\ normalize(Reparse(last.val)) = last.val
        /\ last.path = <<>> => last.val = Root

(***************************************************************************)
(* C30: for every path p, join(dirname(p), basename(p)) equals             *)
(* normalize(p): for a bare drive root, for a single-segment relative      *)
(* path and for the empty path as for every other.                         *)
(***************************************************************************)
C30_DirnameBasenameRoundTrip ==
    [][\A p \in PathInputs : SplitJoin(p) => last'.val = normalize(p)]_vars

(***************************************************************************)
(* C26: whenever an operation of a coordinator that has a kernel fails,    *)
(* an fs:error event naming the operation is handed to the kernel before   *)
(* the caller observes the failure, and the error the caller receives is   *)
(* the operation's own: an exception thrown by the kernel's emit never     *)
(* replaces it.                                                            *)
(***************************************************************************)
Reported(op) == <<"fs:error", op>> \in SeqRange(last'.events)

\* createFile(p, c) fails with the error its body ends with
CreateFileFails(p, c, sink) ==
    /\ EventCreateFileWith(p, c, sink)
    /\ Body(createFile(Start(0), p, c, generateId(FilePool, Used))).res # "ok"

C26_ErrorReportedNotMasked ==
    [][/\ \A p \in EventPaths, c \in Contents, sink \in Sinks \ {"none"} :
              CreateFileFails(p, c, sink)
                  => /\ Reported("createFile")
                     /\ last'.res
                          = Body(createFile(Start(0), p, c, generateId(FilePool, Used))).res
       /\ \A p \in EventPaths, sink \in Sinks \ {"none"} :
              (EventGetInfoWith(p, sink) /\ ~db) => Reported("getInfo")]_vars

(***************************************************************************)
(* C31: the tree that initialize() persists on empty storage is linked:    *)
(* every seeded entry other than the root, the three sample files          *)
(* included, has its id in the children list of the directory its parentId *)
(* names.                                                                  *)
(***************************************************************************)
SeedsEmptyStorage ==
    /\ storage = EmptyMap
    /\ last'.op = "initialize"
    /\ last'.res = "ok"

\* the entries of st that their parent's children list does not name
Unlisted(st) ==
    {i \in DOMAIN st :
        /\ st[i].parentId # NullId
        /\ \/ st[i].parentId \notin LiveDirs(st)
           \/ i \notin ChildIds(st, st[i].parentId)}

C31_SeededTreeLinked == [][SeedsEmptyStorage => Unlisted(storage') = {}]_vars

(***************************************************************************)
(* C32: from a state in which paths are unique, every parentId names a     *)
(* live directory, children lists agree with the parentId's, every path is *)
(* its parent's path plus its name, there is one root C:\ and the cache    *)
(* holds what storage holds, each successful createFile, createDirectory,  *)
(* deleteFile and deleteDirectory (recursive or not) yields a state in     *)
(* which every directory's children are again exactly the ids whose        *)
(* parentId is that directory and every parentId names a live directory.   *)
(***************************************************************************)
ParentsLive(st) ==
    \A i \in DOMAIN st : st[i].parentId # NullId => st[i].parentId \in LiveDirs(st)

PrefixConsistent(st) ==
    \A i \in DOMAIN st :
        st[i].parentId \in DOMAIN st =>
            st[i].path = Append(st[st[i].parentId].path, st[i].name)

OneRoot(st) ==
    /\ Cardinality(Roots(st)) = 1
    /\ \A i \in Roots(st) : st[i].type = "directory" /\ st[i].path = Root

\* the cache holds, under each path of storage, the record storage holds
CacheEqualsStorage(st, ca, hp) ==
    /\ DOMAIN ca = {st[i].path : i \in DOMAIN st}
    /\ \A i \in DOMAIN st : ToRecord(hp, ca[st[i].path]) = st[i]

WellFormed ==
    /\ UniquePaths(storage)
    /\ ParentsLive(storage)
    /\ LinkDefects(storage) = {}
    /\ PrefixConsistent(storage)
    /\ OneRoot(storage)
    /\ CacheEqualsStorage(storage, cache, heap)

StructuralOps ==
    {"createFile", "createDirectory", "deleteFile", "deleteDirectory",
     "deleteDirectoryRecursive"}

StructuralCall == calls' = calls + 1 /\ last'.op \in StructuralOps /\ last'.res = "ok"

C32_LinkagePreserved ==
    [][(WellFormed /\ StructuralCall)
          => (LinkDefects(storage') = {} /\ ParentsLive(storage'))]_vars

\* reached: with the three sample files deleted, createDirectory of
\* C:\New Folder and then of C:\New Folder\Sub succeeded, the second on a
\* well-formed tree, and the tree is well-formed again
C32_Witness ==
    /\ last = Call("createDirectory", NewSub, <<>>, "ok")
    /\ calls = 6
    /\ StorageHasPath(storage, NewFolder)
    /\ ~StorageHasPath(storage, WelcomeTxt)
    /\ WellFormed

(***************************************************************************)
(* C33: when writeFile(p, c) and readFile(p) on the same existing file     *)
(* have both returned successfully, storage and the cache hold content c   *)
(* for p: the record readFile writes to persist the accessed timestamp     *)
(* never brings back the content the file had before the write.            *)
(***************************************************************************)
ReturnedOk(i, op) == procs[i].pc = "done" /\ procs[i].op = op /\ procs[i].res = "ok"

HoldsContent(p, c) ==
    /\ StorageHasPath(storage, p)
    /\ StorageGetEntryByPath(storage, p).content = c
    /\ p \in DOMAIN cache
    /\ cache[p].content = c

C33_ReadKeepsWrite ==
    \A i, j \in Procs :
        (/\ ReturnedOk(i, "writeFile")
         /\ ReturnedOk(j, "readFile")
         /\ procs[i].path = procs[j].path)
            => HoldsContent(procs[i].path, procs[i].content)

(***************************************************************************)
(* C34: when deleteFile(p) has succeeded and a readFile(p) or writeFile(p) *)
(* that had obtained the same file's snapshot has returned as well, no     *)
(* entry for p exists in storage or in the cache: the other call's record  *)
(* write never re-creates the deleted file.                                *)
(***************************************************************************)
\* call j worked on the snapshot of the file call i deleted
HeldSnapshotOf(j, i) ==
    /\ procs[j].pc = "done"
    /\ procs[j].op \in {"readFile", "writeFile"}
    /\ procs[j].path = procs[i].path
    /\ procs[j].entry.id = procs[i].entry.id

C34_DeletedStaysDeleted ==
    \A i, j \in Procs :
        (ReturnedOk(i, "deleteFile") /\ HeldSnapshotOf(j, i))
            => (~StorageHasPath(storage, procs[i].path) /\ procs[i].path \notin DOMAIN cache)

(***************************************************************************)
(* C35: when createFile(D\x) and deleteDirectory(D, false) on the empty    *)
(* directory D of the seeded tree have both returned, either the delete    *)
(* failed and D and x both exist, x a child of D and D a child of its      *)
(* parent, or the create failed and neither D nor x exists: never a file   *)
(* whose parent is gone, never a directory its parent does not list.       *)
(***************************************************************************)
\* the entries at d and at d\x exist and are linked, d to its own parent too
BothLinked(d, x) ==
    /\ StorageHasPath(storage, d)
    /\ StorageHasPath(storage, x)
    /\ StorageGetEntryByPath(storage, d).type = "directory"
    /\ StorageGetEntryByPath(storage, x).parentId = StorageGetEntryByPath(storage, d).id
    /\ StorageGetEntryByPath(storage, x).id
           \in SeqRange(StorageGetEntryByPath(storage, d).children)
    /\ StorageGetEntryByPath(storage, d).parentId \in LiveDirs(storage)
    /\ StorageGetEntryByPath(storage, d).id
           \in ChildIds(storage, StorageGetEntryByPath(storage, d).parentId)

NeitherExists(d, x) ==
    /\ ~StorageHasPath(storage, d)
    /\ ~StorageHasPath(storage, x)
    /\ \A i \in DOMAIN storage : storage[i].parentId \in {NullId} \cup DOMAIN storage

\* call i created a file in the directory call j was asked to delete, both
\* begun on the tree as initialize() seeded it
CreateAndDeleteReturned(i, j) ==
    /\ calls = 1
    /\ procs[i].pc = "done" /\ procs[i].op = "createFile"
    /\ procs[j].pc = "done" /\ procs[j].op = "deleteDirectory"
    /\ dirname(procs[i].path) = procs[j].path

C35_CreateDeleteSerial ==
    \A i, j \in Procs :
        CreateAndDeleteReturned(i, j)
            => \/ /\ procs[i].res = "ok"
                  /\ procs[j].res = "DirectoryNotEmpty"
                  /\ BothLinked(procs[j].path, procs[i].path)
               \/ /\ procs[i].res # "ok"
                  /\ procs[j].res = "ok"
                  /\ NeitherExists(procs[j].path, procs[i].path)

(***************************************************************************)
(* C36: when two createFile calls, or two createDirectory calls, on the    *)
(* same path that names nothing in the seeded tree have both returned,     *)
(* exactly one succeeded; storage holds exactly one entry for the path,    *)
(* its parent's children list names that entry's id exactly once and no id *)
(* of an entry that does not exist, and the cache holds the entry.         *)
(***************************************************************************)
SameCreateReturned(i, j) ==
    /\ calls = 1
    /\ i # j
    /\ procs[i].pc = "done" /\ procs[j].pc = "done"
    /\ procs[i].op \in {"createFile", "createDirectory"}
    /\ procs[j].op = procs[i].op
    /\ procs[j].path = procs[i].path

EntriesAt(p) == {k \in DOMAIN storage : storage[k].path = p}

Occurrences(seq, x) == Cardinality({n \in 1..Len(seq) : seq[n] = x})

\* entry k is the one entry at p, listed once by its parent, and cached
SoleSurvivor(p, k) ==
    /\ EntriesAt(p) = {k}
    /\ storage[k].parentId \in LiveDirs(storage)
    /\ Occurrences(storage[storage[k].parentId].children, k) = 1
    /\ ChildIds(storage, storage[k].parentId) \subseteq DOMAIN storage
    /\ p \in DOMAIN cache
    /\ ToRecord(heap, cache[p]) = storage[k]

Renamed == calls' = calls + 1 /\ last'.op = "rename" /\ StorageHasPath(storage, last'.path)

TargetTaken == StorageHasPath(storage, last'.path2)

TargetParentMissing == ~ParentIsLiveDirectory(last'.path2)

RenameRefused ==
    /\ last'.res # "ok"
    /\ storage' = storage
    /\ CacheView(cache', heap') = CacheView(cache, heap)

C37_RenameRefused ==
    [][(Renamed /\ (TargetTaken \/ TargetParentMissing)) => RenameRefused]_vars

(***************************************************************************)
(* C38: after an initialize() that failed having stored some of the        *)
(* default entries, the `initialized` flag never set, a later initialize() *)
(* whose writes storage accepts succeeds: the complete default tree is in  *)
(* storage, the flag is set and the coordinator is ready.  A failed        *)
(* seeding never makes every later initialize() fail.                      *)
(***************************************************************************)
PartlySeeded == storage # EmptyMap /\ "initialized" \notin metadata

SeededAndReady ==
    /\ last'.res = "ok"
    /\ initialized'
    /\ "initialized" \in metadata'
    /\ DefaultIds \subseteq DOMAIN storage'

C38_SeedingRecovers == [][(PartlySeeded /\ InitializeF(0)) => SeededAndReady]_vars

(***************************************************************************)
(* C39: in every state reached by initialize, createFile, writeFile,       *)
(* readFile, rename, copyFile, moveFile and the delete operations issued   *)
(* one at a time, the size of every live file is the byte length of its    *)
(* content, in storage and in the cache.                                   *)
(***************************************************************************)
\* the number of bytes of each text the calls and the seeding hand over
ByteLength(content) ==
    CASE content = "" -> 0
      [] content = "hi" -> 2
      [] content = "abc" -> 3
      [] content = WelcomeText -> 510
      [] content = ReadmeText -> 304
      [] content = SystemIniText -> 232

SizedByContent(rec) == rec.type = "file" => rec.size = ByteLength(rec.content)

====
